---- MODULE Spec2Model ----
(***************************************************************************)
(* Model of the native witness builder of zero-bin (crate rpc): the        *)
(* per-transaction tracer and access reconciler (rpc/native/txn.rs), the   *)
(* block orchestrator (rpc/native/block.rs), the state witness builder     *)
(* (rpc/native/state.rs), the partial trie builder (rpc/native/trie.rs)    *)
(* and the block metadata assembler (metadata.rs, rpc/jerigon.rs).         *)
(*                                                                         *)
(* Conventions.  Option<T> is a record [some |-> BOOLEAN, val |-> T].      *)
(* HashMap<K, V> is a function whose DOMAIN is the key set.  HashSet<T>    *)
(* and a Vec collected from a HashSet (iteration order unspecified) are    *)
(* sets.  Byte strings are sequences of 0..255.  keccak256 is modelled as  *)
(* an injective constructor (collision freedom).                           *)
(***************************************************************************)
EXTENDS Integers, Sequences, FiniteSets, TLC

VARIABLES
    pc,             \* position of process_block_trace
    block,          \* Option<Block>: the target block once fetched
    accounts_state, \* HashMap<H160, HashSet<H256>> behind Arc<Mutex<..>>
    code_db,        \* HashMap<H256, Vec<u8>> behind Arc<Mutex<..>>
    accounts_lock,  \* holder of the accounts_state mutex: a task index, 0 when free
    code_db_lock,   \* holder of the code_db mutex: a task index, 0 when free
    tasks,          \* the process_transaction futures created so far, in creation order:
                    \* [pc, pending (requests in flight), got (responses), traces]
    tx_infos,       \* Vec<TxnInfo> collected so far
    prev_block,     \* Option<Block>: the parent block once fetched
    proof_inflight, \* per stream of fetch_proof_data, the address whose get_proof is awaited
    proof_got,      \* per stream, the (address, keys, proof) items collected so far
    proof_log,      \* every get_proof request sent to the node so far
    builders,       \* the PartialTrieBuilders: [state, storage (by hashed address)]
    trie_pre_images,\* Option: the tries built from the builders
    block_trace,    \* Option<BlockTrace>: what process_block_trace returned
    proofs_left,    \* proofs the node has served that are not inserted yet: [now, next]
    meta_pc,        \* position of fetch_other_block_data
    target_block_id,\* the number of the block whose metadata is asked for
    target_block,   \* Option<Block>: the target block as fetch_other_block_data got it
    chain_id,       \* Option<u64>
    checkpoint_state_trie_root, \* Option<B256>
    prev_hashes,    \* [B256; 256], scaled to PrevHashesLen
    hash_fetches,   \* the get_block futures of the buffered stream, in stream order
                    \* from 0: "pending", "done" or "failed"
    other_data,     \* Option<OtherBlockData>: what fetch_other_block_data returned
    previous_block_hashes \* outcome of jerigon's fetch_previous_block_hashes

meta_vars == <<meta_pc, target_block_id, target_block, chain_id, checkpoint_state_trie_root, prev_hashes, hash_fetches, other_data, previous_block_hashes>>

vars == <<pc, block, accounts_state, code_db, accounts_lock, code_db_lock, tasks, tx_infos, prev_block, proof_inflight, proof_got, proof_log, builders, trie_pre_images, block_trace, proofs_left, meta_pc, target_block_id, target_block, chain_id, checkpoint_state_trie_root, prev_hashes, hash_fetches, other_data, previous_block_hashes>>

trie_vars == <<builders, trie_pre_images, proofs_left>>

witness_vars == <<prev_block, proof_inflight, proof_got, proof_log, builders, trie_pre_images, block_trace, proofs_left>>

(***************************************************************************)
(* Option, maps and bytes                                                  *)
(***************************************************************************)
None == [some |-> FALSE]

Some(v) == [some |-> TRUE, val |-> v]

EmptyMap == [x \in {} |-> {}]

\* HashMap::get
Get(m, k) == IF k \in DOMAIN m THEN Some(m[k]) ELSE None

\* HashMap::insert (overwrites)
Put(m, k, v) == [x \in DOMAIN m \cup {k} |-> IF x = k THEN v ELSE m[x]]

Byte == 0..255

\* A `let` binding: F applied to the value v, which is computed once.
Let(v, F(_)) == F(v)

(***************************************************************************)
(* Bounds of the model                                                     *)
(***************************************************************************)
\* Width in bytes of a storage word in the model (H256 is 32 bytes wide).
WordBytes == 2

\* Longest block, in transactions.
MaxTxs == 2

(***************************************************************************)
(* Values of the remote node                                               *)
(***************************************************************************)
Addresses == {"a1", "a2", "a3", "a4"}

StorageKeys == {"k1", "k2"}

\* Storage words: all zero, or a single byte 1 at one position.
ZeroWord == [i \in 1..WordBytes |-> 0]

Words == {ZeroWord} \cup {[i \in 1..WordBytes |-> IF i = p THEN 1 ELSE 0] : p \in 1..WordBytes}

\* Contract code as the tracer reports it: a "0x"-prefixed hex string.
CodeA == <<"0", "x", "6", "0", "0", "1">>

CodeB == <<"0", "x", "f", "e">>

(***************************************************************************)
(* Library conversions used by the reconciler                              *)
(***************************************************************************)
RECURSIVE from_big_endian(_)
\* U256::from_big_endian: the first byte is the most significant.
from_big_endian(bytes) ==
    IF Len(bytes) = 0 THEN 0
    ELSE 256 * from_big_endian(SubSeq(bytes, 1, Len(bytes) - 1)) + bytes[Len(bytes)]

HexDigits == <<"0", "1", "2", "3", "4", "5", "6", "7", "8", "9", "a", "b", "c", "d", "e", "f">>

HexVal(c) == (CHOOSE i \in 1..16 : HexDigits[i] = c) - 1

\* hex::decode: two digits per byte, high digit first.
hex_decode(s) == [i \in 1..(Len(s) \div 2) |-> 16 * HexVal(s[2 * i - 1]) + HexVal(s[2 * i])]

\* Width in bytes of a hash (H256) and of a hashed child reference.
HashLen == 32

RECURSIVE SumRange(_, _, _)
\* The sum of bytes[lo..hi], by halves.
SumRange(bytes, lo, hi) ==
    IF lo > hi THEN 0
    ELSE IF lo = hi THEN bytes[lo]
    ELSE SumRange(bytes, lo, (lo + hi) \div 2) + SumRange(bytes, (lo + hi) \div 2 + 1, hi)

SumBytes(bytes) == SumRange(bytes, 1, Len(bytes))

\* ethers::utils::keccak256 as a 32-byte digest of its input: the length, a
\* two-byte checksum and the leading bytes.  Inputs that differ in length, in
\* the sum of their bytes or in one of their first bytes get different digests.
keccak256(bytes) ==
    LET sum == SumBytes(bytes)
    IN  <<Len(bytes) % 256, (sum \div 256) % 256, sum % 256>>
        \o [i \in 1..(HashLen - 3) |-> IF i <= Len(bytes) THEN bytes[i] ELSE 0]

Range(s) == {s[i] : i \in DOMAIN s}

(***************************************************************************)
(* Access reconciler (rpc/native/txn.rs)                                   *)
(*                                                                         *)
(* AccountState == [balance, nonce, code, storage], each an Option; a      *)
(* storage is a map from storage key to word.  TxnTrace == [balance,       *)
(* nonce, storage_read, storage_written, code_usage, self_destructed].     *)
(***************************************************************************)
\* One entry per distinct address, holding the union of its items' keys.
parse_access_list(access_list) ==
    [a \in {access_list[i].address : i \in DOMAIN access_list} |->
        UNION {Range(access_list[i].storage_keys) : i \in {j \in DOMAIN access_list : access_list[j].address = a}}]

\* A storage pass that takes the written slots from the post map alone.
process_storage_post_only(storage_keys, access_list, acct_state, post_acct, pre_acct) ==
    LET read_keys == IF acct_state.some /\ acct_state.val.storage.some
                     THEN DOMAIN acct_state.val.storage.val ELSE {}
        storage_read == access_list \cup read_keys
        storage_written == IF post_acct.some /\ post_acct.val.storage.some
                  THEN [k \in DOMAIN post_acct.val.storage.val |-> from_big_endian(post_acct.val.storage.val[k])]
                  ELSE EmptyMap
    IN  [storage_keys |-> (storage_keys \cup DOMAIN storage_written) \cup storage_read,
         storage_read |-> IF storage_read = {} THEN None ELSE Some(storage_read),
         storage_written |-> IF DOMAIN storage_written = {} THEN None ELSE Some(storage_written)]

\* A storage pass that merges only the slots that were read into the block-wide key set.
process_storage_read_keys_only(storage_keys, access_list, acct_state, post_acct, pre_acct) ==
    LET read_keys == IF acct_state.some /\ acct_state.val.storage.some
                     THEN DOMAIN acct_state.val.storage.val ELSE {}
        storage_read == access_list \cup read_keys
        posted == IF post_acct.some /\ post_acct.val.storage.some
                  THEN [k \in DOMAIN post_acct.val.storage.val |-> from_big_endian(post_acct.val.storage.val[k])]
                  ELSE EmptyMap
        deleted == IF pre_acct.some /\ pre_acct.val.storage.some
                   THEN DOMAIN pre_acct.val.storage.val ELSE {}
        storage_written == [k \in DOMAIN posted \cup deleted |-> IF k \in DOMAIN posted THEN posted[k] ELSE 0]
    IN  [storage_keys |-> storage_keys \cup storage_read,
         storage_read |-> IF storage_read = {} THEN None ELSE Some(storage_read),
         storage_written |-> IF DOMAIN storage_written = {} THEN None ELSE Some(storage_written)]

\* A storage pass that starts the read set from the read trace alone.
process_storage_no_access_list(storage_keys, access_list, acct_state, post_acct, pre_acct) ==
    LET read_keys == IF acct_state.some /\ acct_state.val.storage.some
                     THEN DOMAIN acct_state.val.storage.val ELSE {}
        storage_read == read_keys
        posted == IF post_acct.some /\ post_acct.val.storage.some
                  THEN [k \in DOMAIN post_acct.val.storage.val |-> from_big_endian(post_acct.val.storage.val[k])]
                  ELSE EmptyMap
        deleted == IF pre_acct.some /\ pre_acct.val.storage.some
                   THEN DOMAIN pre_acct.val.storage.val ELSE {}
        storage_written == [k \in DOMAIN posted \cup deleted |-> IF k \in DOMAIN posted THEN posted[k] ELSE 0]
    IN  [storage_keys |-> (storage_keys \cup DOMAIN storage_written) \cup storage_read,
         storage_read |-> IF storage_read = {} THEN None ELSE Some(storage_read),
         storage_written |-> IF DOMAIN storage_written = {} THEN None ELSE Some(storage_written)]

\* A storage pass that returns the read set and the write map as they are,
\* empty or not.
process_storage_unfiltered(storage_keys, access_list, acct_state, post_acct, pre_acct) ==
    LET read_keys == IF acct_state.some /\ acct_state.val.storage.some
                     THEN DOMAIN acct_state.val.storage.val ELSE {}
        storage_read == access_list \cup read_keys
        posted == IF post_acct.some /\ post_acct.val.storage.some
                  THEN [k \in DOMAIN post_acct.val.storage.val |-> from_big_endian(post_acct.val.storage.val[k])]
                  ELSE EmptyMap
        deleted == IF pre_acct.some /\ pre_acct.val.storage.some
                   THEN DOMAIN pre_acct.val.storage.val ELSE {}
        storage_written == [k \in DOMAIN posted \cup deleted |-> IF k \in DOMAIN posted THEN posted[k] ELSE 0]
    IN  [storage_keys |-> (storage_keys \cup DOMAIN storage_written) \cup storage_read,
         storage_read |-> Some(storage_read),
         storage_written |-> Some(storage_written)]

\* Returns the updated storage_keys with the (storage_read, storage_written) pair.
process_storage(storage_keys, access_list, acct_state, post_acct, pre_acct) ==
    LET read_keys == IF acct_state.some /\ acct_state.val.storage.some
                     THEN DOMAIN acct_state.val.storage.val ELSE {}
        storage_read == access_list \cup read_keys
        posted == IF post_acct.some /\ post_acct.val.storage.some
                  THEN [k \in DOMAIN post_acct.val.storage.val |-> from_big_endian(post_acct.val.storage.val[k])]
                  ELSE EmptyMap
        deleted == IF pre_acct.some /\ pre_acct.val.storage.some
                   THEN DOMAIN pre_acct.val.storage.val ELSE {}
        storage_written == [k \in DOMAIN posted \cup deleted |-> IF k \in DOMAIN posted THEN posted[k] ELSE 0]
    IN  [storage_keys |-> (storage_keys \cup DOMAIN storage_written) \cup storage_read,
         storage_read |-> IF storage_read = {} THEN None ELSE Some(storage_read),
         storage_written |-> IF DOMAIN storage_written = {} THEN None ELSE Some(storage_written)]

\* A code pass that keeps only the last code it saw in the database.
process_code_keep_last(post_state, read_state, db) ==
    LET read_code == IF read_state.some THEN read_state.val.code ELSE None
        post_code == IF post_state.some THEN post_state.val.code ELSE None
        rbytes == hex_decode(SubSeq(read_code.val, 3, Len(read_code.val)))
        pbytes == hex_decode(SubSeq(post_code.val, 3, Len(post_code.val)))
        db1 == IF read_code.some THEN Put(EmptyMap, keccak256(rbytes), rbytes) ELSE db
        default == IF read_code.some THEN Some([kind |-> "Read", hash |-> keccak256(rbytes)]) ELSE None
    IN  IF post_code.some
        THEN [code_usage |-> Some([kind |-> "Write", code |-> pbytes]),
              code_db |-> Put(EmptyMap, keccak256(pbytes), pbytes)]
        ELSE [code_usage |-> default, code_db |-> db1]

\* A code pass written with map_or on the post entry itself: the read code is
\* the default only for an address the post map does not list.
process_code_post_absent(post_state, read_state, db) ==
    LET read_code == IF read_state.some THEN read_state.val.code ELSE None
        post_code == IF post_state.some THEN post_state.val.code ELSE None
        rbytes == hex_decode(SubSeq(read_code.val, 3, Len(read_code.val)))
        pbytes == hex_decode(SubSeq(post_code.val, 3, Len(post_code.val)))
        db1 == IF read_code.some THEN Put(db, keccak256(rbytes), rbytes) ELSE db
        default == IF read_code.some THEN Some([kind |-> "Read", hash |-> keccak256(rbytes)]) ELSE None
    IN  IF post_state.some
        THEN IF post_code.some
             THEN [code_usage |-> Some([kind |-> "Write", code |-> pbytes]),
                   code_db |-> Put(db1, keccak256(pbytes), pbytes)]
             ELSE [code_usage |-> None, code_db |-> db1]
        ELSE [code_usage |-> default, code_db |-> db1]

\* The default argument of map_or is evaluated before map_or is called: the
\* code of the read trace is inserted into code_db whatever the post state holds.
process_code(post_state, read_state, db) ==
    LET read_code == IF read_state.some THEN read_state.val.code ELSE None
        post_code == IF post_state.some THEN post_state.val.code ELSE None
        rbytes == hex_decode(SubSeq(read_code.val, 3, Len(read_code.val)))
        pbytes == hex_decode(SubSeq(post_code.val, 3, Len(post_code.val)))
        db1 == IF read_code.some THEN Put(db, keccak256(rbytes), rbytes) ELSE db
        default == IF read_code.some THEN Some([kind |-> "Read", hash |-> keccak256(rbytes)]) ELSE None
    IN  IF post_code.some
        THEN [code_usage |-> Some([kind |-> "Write", code |-> pbytes]),
              code_db |-> Put(db1, keccak256(pbytes), pbytes)]
        ELSE [code_usage |-> default, code_db |-> db1]

\* A self-destruct test that looks at the pre map alone.
process_self_destruct_pre_only(post_state, pre_state) ==
    IF pre_state.some THEN Some(TRUE) ELSE None

process_self_destruct(post_state, pre_state) ==
    IF ~post_state.some /\ pre_state.some THEN Some(TRUE) ELSE None

\* A closure body that takes the nonce from the post state alone.
TxnTraceOf_post_nonce(address, keys_before, access_list, read_trace, pre_trace, post_trace, db) ==
    LET read_state == Get(read_trace, address)
        pre_state == Get(pre_trace, address)
        post_state == Get(post_trace, address)
        storage == process_storage(keys_before,
                                   IF address \in DOMAIN access_list THEN access_list[address] ELSE {},
                                   read_state, post_state, pre_state)
    IN  [balance |-> IF post_state.some THEN post_state.val.balance ELSE None,
         nonce |-> IF post_state.some THEN post_state.val.nonce ELSE None,
         storage_read |-> storage.storage_read,
         storage_written |-> storage.storage_written,
         code_usage |-> process_code(post_state, read_state, db).code_usage,
         self_destructed |-> process_self_destruct(post_state, pre_state)]

\* The body of the closure mapped over the addresses: the TxnTrace of one address.
TxnTraceOf(address, keys_before, access_list, read_trace, pre_trace, post_trace, db) ==
    LET read_state == Get(read_trace, address)
        pre_state == Get(pre_trace, address)
        post_state == Get(post_trace, address)
        balance == IF post_state.some THEN post_state.val.balance ELSE None
        storage == process_storage(keys_before,
                                   IF address \in DOMAIN access_list THEN access_list[address] ELSE {},
                                   read_state, post_state, pre_state)
        code_usage == process_code(post_state, read_state, db).code_usage
        post_nonce == IF post_state.some THEN post_state.val.nonce ELSE None
        nonce == IF post_nonce.some THEN post_nonce
                 ELSE IF code_usage.some /\ code_usage.val.kind = "Write" THEN Some(1) ELSE None
    IN  [balance |-> balance,
         nonce |-> nonce,
         storage_read |-> storage.storage_read,
         storage_written |-> storage.storage_written,
         code_usage |-> code_usage,
         self_destructed |-> process_self_destruct(post_state, pre_state)]

RECURSIVE CodeDbAfter(_, _, _, _)
\* code_db after the closure has run for every address of `addrs`.
CodeDbAfter(addrs, read_trace, post_trace, db) ==
    IF addrs = {} THEN db
    ELSE LET a == CHOOSE x \in addrs : TRUE
         IN  CodeDbAfter(addrs \ {a}, read_trace, post_trace,
                         process_code(Get(post_trace, a), Get(read_trace, a), db).code_db)

\* A reconciler that emits a TxnTrace for the addresses of the read trace alone.
process_tx_traces_read_only(accounts, db, access_list, read_trace, diff_trace) ==
    LET pre_trace == diff_trace.pre
        post_trace == diff_trace.post
        addresses == DOMAIN read_trace
        before(a) == IF a \in DOMAIN accounts THEN accounts[a] ELSE {}
        alist(a) == IF a \in DOMAIN access_list THEN access_list[a] ELSE {}
    IN  [traces |-> [a \in addresses |->
                        TxnTraceOf(a, before(a), access_list, read_trace, pre_trace, post_trace, db)],
         accounts_state |-> [a \in DOMAIN accounts \cup addresses |->
                        IF a \in addresses
                        THEN process_storage(before(a), alist(a), Get(read_trace, a),
                                             Get(post_trace, a), Get(pre_trace, a)).storage_keys
                        ELSE accounts[a]],
         code_db |-> CodeDbAfter(addresses, read_trace, post_trace, db)]

\* Returns the trace map with the updated accounts_state and code_db.
process_tx_traces(accounts, db, access_list, read_trace, diff_trace) ==
    LET pre_trace == diff_trace.pre
        post_trace == diff_trace.post
        addresses == ((DOMAIN read_trace \cup DOMAIN post_trace) \cup DOMAIN pre_trace) \cup DOMAIN access_list
        before(a) == IF a \in DOMAIN accounts THEN accounts[a] ELSE {}
        alist(a) == IF a \in DOMAIN access_list THEN access_list[a] ELSE {}
    IN  [traces |-> [a \in addresses |->
                        TxnTraceOf(a, before(a), access_list, read_trace, pre_trace, post_trace, db)],
         accounts_state |-> [a \in DOMAIN accounts \cup addresses |->
                        IF a \in addresses
                        THEN process_storage(before(a), alist(a), Get(read_trace, a),
                                             Get(post_trace, a), Get(pre_trace, a)).storage_keys
                        ELSE accounts[a]],
         code_db |-> CodeDbAfter(addresses, read_trace, post_trace, db)]

(***************************************************************************)
(* RLP (crate rlp) as used for receipts and trie nodes                     *)
(***************************************************************************)
RECURSIVE be_bytes(_)
\* The minimal big-endian bytes of a length or an integer (none for 0).
be_bytes(n) == IF n = 0 THEN <<>> ELSE be_bytes(n \div 256) \o <<n % 256>>

\* Header of an item with `len` payload bytes: base 128 for a string, 192 for a list.
rlp_header(base, len) ==
    IF len < 56 THEN <<base + len>>
    ELSE <<base + 55 + Len(be_bytes(len))>> \o be_bytes(len)

\* rlp::encode of a byte string.
rlp_encode(bytes) ==
    IF Len(bytes) = 1 /\ bytes[1] < 128 THEN bytes
    ELSE rlp_header(128, Len(bytes)) \o bytes

RECURSIVE ConcatRange(_, _, _)
\* seqs[lo] \o .. \o seqs[hi], by halves.
ConcatRange(seqs, lo, hi) ==
    IF lo > hi THEN <<>>
    ELSE IF lo = hi THEN seqs[lo]
    ELSE ConcatRange(seqs, lo, (lo + hi) \div 2) \o ConcatRange(seqs, (lo + hi) \div 2 + 1, hi)

Concat(seqs) == ConcatRange(seqs, 1, Len(seqs))

\* An RLP list whose items are already encoded.
rlp_list(encoded_items) ==
    LET payload == Concat(encoded_items)
    IN  rlp_header(192, Len(payload)) \o payload

\* TransactionReceipt::rlp_append: [status, cumulative_gas_used, logs_bloom, logs];
\* the transaction type is not part of it.
rlp_encode_receipt(r) ==
    rlp_list(<<rlp_encode(IF r.status.some THEN be_bytes(r.status.val) ELSE <<>>),
               rlp_encode(be_bytes(r.cumulative_gas_used)),
               rlp_encode(r.logs_bloom),
               rlp_list(r.logs)>>)

(***************************************************************************)
(* RLP decoding (crate rlp) as the trie builder uses it                    *)
(***************************************************************************)
RECURSIVE be_value(_)
\* The integer of a big-endian length field.
be_value(bytes) == IF Len(bytes) = 0 THEN 0 ELSE 256 * be_value(SubSeq(bytes, 1, Len(bytes) - 1)) + bytes[Len(bytes)]

\* PayloadInfo::from: the header of the item that starts `bytes`, as
\* [ok, list, header_len, value_len]; ok is FALSE for a truncated item and for
\* the encodings the crate rejects (a length with a leading zero, a long form
\* for a short payload, a single byte below 0x80 wrapped as a string).
rlp_payload_info(bytes) ==
    LET bad == [ok |-> FALSE, list |-> FALSE, header_len |-> 0, value_len |-> 0]
        info(list, header_len, value_len) ==
            IF header_len + value_len <= Len(bytes)
            THEN [ok |-> TRUE, list |-> list, header_len |-> header_len, value_len |-> value_len]
            ELSE bad
        long(list, base) ==
            LET len_of_len == bytes[1] - base
            IN  IF Len(bytes) < 1 + len_of_len THEN bad
                ELSE LET len == be_value(SubSeq(bytes, 2, 1 + len_of_len))
                     IN  IF bytes[2] = 0 \/ len < 56 THEN bad ELSE info(list, 1 + len_of_len, len)
    IN  IF Len(bytes) = 0 THEN bad
        ELSE IF bytes[1] < 128 THEN info(FALSE, 0, 1)
        ELSE IF bytes[1] < 184
             THEN IF bytes[1] = 129 /\ Len(bytes) >= 2 /\ bytes[2] < 128 THEN bad
                  ELSE info(FALSE, 1, bytes[1] - 128)
        ELSE IF bytes[1] < 192 THEN long(FALSE, 183)
        ELSE IF bytes[1] < 248 THEN info(TRUE, 1, bytes[1] - 192)
        ELSE long(TRUE, 247)

RECURSIVE rlp_items(_)
\* The items of a list payload, each decoded as Vec<u8>: [ok, items]; ok is
\* FALSE when an item is malformed or is itself a list (RlpExpectedToBeData).
rlp_items(payload) ==
    IF Len(payload) = 0 THEN [ok |-> TRUE, items |-> <<>>]
    ELSE Let(rlp_payload_info(payload), LAMBDA info :
             IF ~info.ok \/ info.list THEN [ok |-> FALSE, items |-> <<>>]
             ELSE Let(rlp_items(SubSeq(payload, info.header_len + info.value_len + 1, Len(payload))), LAMBDA rest :
                      [ok |-> rest.ok,
                       items |-> <<SubSeq(payload, info.header_len + 1, info.header_len + info.value_len)>> \o rest.items]))

\* rlp::decode_list::<Vec<u8>>(bytes): as_list().expect(..) panics (ok = FALSE)
\* unless `bytes` is a list of byte strings.
rlp_decode_list(bytes) ==
    Let(rlp_payload_info(bytes), LAMBDA info :
        IF ~info.ok \/ ~info.list THEN [ok |-> FALSE, items |-> <<>>]
        ELSE rlp_items(SubSeq(bytes, info.header_len + 1, info.header_len + info.value_len)))

(***************************************************************************)
(* mpt_trie: nibbles, nodes and the hash of a partial trie                 *)
(***************************************************************************)
\* Node::Empty, Node::Hash, Node::Leaf, Node::Extension, Node::Branch; Panicked
\* stands where the decoder panics instead of returning a node.
EmptyNode == [kind |-> "Empty"]

HashNode(h) == [kind |-> "Hash", hash |-> h]

LeafNode(nibbles, value) == [kind |-> "Leaf", nibbles |-> nibbles, value |-> value]

ExtensionNode(nibbles, child) == [kind |-> "Extension", nibbles |-> nibbles, child |-> child]

BranchNode(children, value) == [kind |-> "Branch", children |-> children, value |-> value]

Panicked == [kind |-> "panic"]

\* Nibbles::from_bytes_be: two nibbles per byte, high nibble first.
from_bytes_be(bytes) == [i \in 1..(2 * Len(bytes)) |-> IF i % 2 = 1 THEN bytes[(i + 1) \div 2] \div 16 ELSE bytes[i \div 2] % 16]

\* Nibbles::to_hex_prefix_encoding: the flag nibble is 2 for a leaf plus 1 for
\* an odd path; an even path gets a zero nibble after the flag.
to_hex_prefix_encoding(nibbles, is_leaf) ==
    LET flag == (IF is_leaf THEN 2 ELSE 0) + (Len(nibbles) % 2)
        padded == IF Len(nibbles) % 2 = 1 THEN <<flag>> \o nibbles ELSE <<flag, 0>> \o nibbles
    IN  [i \in 1..(Len(padded) \div 2) |-> 16 * padded[2 * i - 1] + padded[2 * i]]

RECURSIVE node_rlp(_)
RECURSIVE child_reference(_)
\* The RLP of a node, children replaced by their references.
node_rlp(node) ==
    CASE node.kind = "Empty" -> <<128>>
      [] node.kind = "Leaf" ->
            rlp_list(<<rlp_encode(to_hex_prefix_encoding(node.nibbles, TRUE)), rlp_encode(node.value)>>)
      [] node.kind = "Extension" ->
            rlp_list(<<rlp_encode(to_hex_prefix_encoding(node.nibbles, FALSE)), child_reference(node.child)>>)
      [] node.kind = "Branch" ->
            rlp_list([i \in 1..17 |-> IF i <= 16 THEN child_reference(node.children[i - 1]) ELSE rlp_encode(node.value)])

\* A child is referenced by its hash, or holds its place itself when its RLP
\* is shorter than a hash.
child_reference(node) ==
    IF node.kind = "Hash" THEN rlp_encode(node.hash)
    ELSE Let(node_rlp(node), LAMBDA encoded :
             IF Len(encoded) < HashLen THEN encoded ELSE rlp_encode(keccak256(encoded)))

\* PartialTrie::hash of a HashedPartialTrie.
trie_hash(node) == IF node.kind = "Hash" THEN node.hash ELSE keccak256(node_rlp(node))

RECURSIVE HasPanicked(_)
HasPanicked(node) ==
    CASE node.kind = "panic" -> TRUE
      [] node.kind = "Extension" -> HasPanicked(node.child)
      [] node.kind = "Branch" -> \E i \in 0..15 : HasPanicked(node.children[i])
      [] OTHER -> FALSE

(***************************************************************************)
(* Partial trie builder (rpc/native/trie.rs)                               *)
(***************************************************************************)
\* PartialTrieBuilder::new
PartialTrieBuilder(root, nodes) == [root |-> root, nodes |-> nodes]

\* A loop that stores the last node of the proof under the hash of the first.
insert_nodes_last_only(nodes, proof) ==
    IF Len(proof) = 0 THEN nodes
    ELSE Put(nodes, keccak256(proof[1]), proof[Len(proof)])

RECURSIVE insert_nodes(_, _)
\* The loop of insert_proof: each node is stored under its keccak256.
insert_nodes(nodes, proof) ==
    IF Len(proof) = 0 THEN nodes
    ELSE insert_nodes(Put(nodes, keccak256(proof[1]), proof[1]), Tail(proof))

insert_proof(builder, proof) == [builder EXCEPT !.nodes = insert_nodes(builder.nodes, proof)]

is_extension_node(bytes) == bytes[1][1] \div 16 \in {0, 1}

is_leaf_node(bytes) == bytes[1][1] \div 16 \in {2, 3}

\* A leaf parser that pops the flag nibble alone, whatever the flag is.
parse_leaf_node_pop_one(bytes) ==
    LeafNode(Tail(from_bytes_be(bytes[1])), bytes[2])

\* The flag nibble is popped; the nibble after it too when the flag is 2.
parse_leaf_node(bytes) ==
    LET encoded_path == from_bytes_be(bytes[1])
        popped == Tail(encoded_path)
    IN  LeafNode(IF encoded_path[1] = 2 THEN Tail(popped) ELSE popped, bytes[2])

RECURSIVE construct_partial_trie(_, _)
RECURSIVE decode_node(_, _)
RECURSIVE parse_child_node(_, _)
\* decode_node on the outcome of rlp::decode_list, whose panic unwinds.
decode_list_node(list, nodes) == IF list.ok THEN decode_node(list.items, nodes) ELSE Panicked

\* The node stored under `hash`, decoded; Node::Hash(hash) when there is none.
construct_partial_trie(hash, nodes) ==
    IF hash \in DOMAIN nodes THEN decode_list_node(rlp_decode_list(nodes[hash]), nodes) ELSE HashNode(hash)

\* A child parser that leaves every hashed child as a stub, without a look at the node map.
parse_child_node_stub(bytes, nodes) ==
    IF Len(bytes) < HashLen THEN decode_list_node(rlp_decode_list(bytes), nodes)
    ELSE IF Len(bytes) = HashLen THEN HashNode(bytes)
    ELSE Panicked

\* Below 32 bytes the child is taken for an inlined node, otherwise for a hash
\* (H256::from_slice panics on more than 32 bytes).
parse_child_node(bytes, nodes) ==
    IF Len(bytes) < HashLen THEN decode_list_node(rlp_decode_list(bytes), nodes)
    ELSE IF Len(bytes) = HashLen THEN construct_partial_trie(bytes, nodes)
    ELSE Panicked

\* A decoder that takes every two-item node that is not an extension for a leaf.
decode_node_lenient(bytes, nodes) ==
    IF Len(bytes) = 17
    THEN BranchNode([i \in 0..15 |-> IF Len(bytes[i + 1]) = 0 THEN EmptyNode ELSE parse_child_node(bytes[i + 1], nodes)],
                    bytes[17])
    ELSE IF Len(bytes) = 2
    THEN IF Len(bytes[1]) = 0 THEN Panicked
         ELSE IF is_extension_node(bytes)
         THEN LET encoded_path == from_bytes_be(bytes[1])
                  popped == Tail(encoded_path)
              IN  ExtensionNode(IF encoded_path[1] = 0 THEN Tail(popped) ELSE popped,
                                parse_child_node(bytes[2], nodes))
         ELSE parse_leaf_node(bytes)
    ELSE Panicked

\* parse_branch_node and parse_extension_node are unfolded here; bytes[0][0]
\* panics on an empty path, unreachable!() on any other shape.
decode_node(bytes, nodes) ==
    IF Len(bytes) = 17
    THEN BranchNode([i \in 0..15 |-> IF Len(bytes[i + 1]) = 0 THEN EmptyNode ELSE parse_child_node(bytes[i + 1], nodes)],
                    bytes[17])
    ELSE IF Len(bytes) = 2
    THEN IF Len(bytes[1]) = 0 THEN Panicked
         ELSE IF is_extension_node(bytes)
         THEN LET encoded_path == from_bytes_be(bytes[1])
                  popped == Tail(encoded_path)
              IN  ExtensionNode(IF encoded_path[1] = 0 THEN Tail(popped) ELSE popped,
                                parse_child_node(bytes[2], nodes))
         ELSE IF is_leaf_node(bytes) THEN parse_leaf_node(bytes)
         ELSE Panicked
    ELSE Panicked

\* PartialTrieBuilder::build: the trie, or Panicked when decoding panicked
\* anywhere below the root.
build(builder) ==
    Let(construct_partial_trie(builder.root, builder.nodes), LAMBDA trie :
        IF HasPanicked(trie) THEN Panicked ELSE trie)

\* The proper suffixes of a nibble path, the empty one included.
path_suffixes(nibbles) == {SubSeq(nibbles, i, Len(nibbles)) : i \in 2..(Len(nibbles) + 1)}

\* The short-node variants of an extension or leaf node: the same node with
\* its path shortened from the front.
short_node_variants(bytes) ==
    LET encoded_path == from_bytes_be(bytes[1])
        popped == Tail(encoded_path)
        nibbles == IF encoded_path[1] \in {0, 2} THEN Tail(popped) ELSE popped
    IN  {rlp_list(<<rlp_encode(to_hex_prefix_encoding(suffix, is_leaf_node(bytes))), rlp_encode(bytes[2])>>) :
            suffix \in path_suffixes(nibbles)}

\* Each node of the set is stored under its keccak256 unless a node is stored there.
insert_if_empty(nodes, new_nodes) ==
    Let({<<keccak256(n), n>> : n \in new_nodes}, LAMBDA hashed :
        [h \in DOMAIN nodes \cup {p[1] : p \in hashed} |->
            IF h \in DOMAIN nodes THEN nodes[h] ELSE (CHOOSE p \in hashed : p[1] = h)[2]])

RECURSIVE insert_if_empty_short_node_variants_from_proof(_, _)
\* For every two-item node of the proof, its short-node variants are added
\* where the map is empty; [ok, builder], ok FALSE when a node does not decode.
insert_if_empty_short_node_variants_from_proof(builder, proof) ==
    IF Len(proof) = 0 THEN [ok |-> TRUE, builder |-> builder]
    ELSE Let(rlp_decode_list(proof[1]), LAMBDA bytes :
             IF ~bytes.ok \/ (Len(bytes.items) = 2 /\ Len(bytes.items[1]) = 0) THEN [ok |-> FALSE, builder |-> builder]
             ELSE insert_if_empty_short_node_variants_from_proof(
                      IF Len(bytes.items) = 2
                      THEN [builder EXCEPT !.nodes = insert_if_empty(builder.nodes, short_node_variants(bytes.items))]
                      ELSE builder,
                      Tail(proof)))

NoBuilders == [state |-> None, storage |-> EmptyMap]

\* MptBlockTraceTriePreImages::Separate of the built tries, or None when a
\* build has panicked.
MptBlockTraceTriePreImages(state_trie, storage_tries) ==
    IF state_trie = Panicked \/ \E h \in DOMAIN storage_tries : storage_tries[h] = Panicked
    THEN None
    ELSE Some([state |-> state_trie, storage |-> storage_tries])

\* state.build() and (a, m.build()) for every storage builder.
build_all(state, storage) ==
    MptBlockTraceTriePreImages(build(state), [h \in DOMAIN storage |-> build(storage[h])])

NoProofsLeft == [now |-> {}, next |-> {}]

\* fetch_other_block_data and fetch_previous_block_hashes are not running.
MetaIdle ==
    /\ meta_pc = "idle"
    /\ target_block_id = 0
    /\ target_block = None
    /\ chain_id = None
    /\ checkpoint_state_trie_root = None
    /\ prev_hashes = <<>>
    /\ hash_fetches = <<>>
    /\ other_data = None
    /\ previous_block_hashes = [state |-> "idle"]

(***************************************************************************)
(* Transaction tracer (rpc/native/txn.rs)                                  *)
(***************************************************************************)
\* Receipt bytes with the type byte put in front and no outer encoding.
compute_receipt_bytes_unwrapped(tx_receipt) ==
    LET bytes == rlp_encode_receipt(tx_receipt)
        ty == tx_receipt.transaction_type
    IN  IF ty.some /\ ty.val # 0
        THEN <<ty.val % 256>> \o bytes
        ELSE bytes

\* rlp::encode(tx_receipt); a set, non-zero type has its low byte inserted in
\* front and the bytes are encoded again, as a byte string.
compute_receipt_bytes(tx_receipt) ==
    LET bytes == rlp_encode_receipt(tx_receipt)
        ty == tx_receipt.transaction_type
    IN  IF ty.some /\ ty.val # 0
        THEN rlp_encode(<<ty.val % 256>> \o bytes)
        ELSE bytes

\* Transaction::rlp, an injective encoding of the transaction.
tx_rlp(tx) == <<"rlp", tx.hash>>

TxRequests == {"tx", "tx_receipt", "pre_trace", "diff_trace"}

\* The two streams of fetch_proof_data: account_proofs_fut and next_account_proofs_fut.
ProofStreams == {"account_proofs", "next_account_proofs"}

NoProofs == [s \in ProofStreams |-> None]

NoResponses == [k \in TxRequests |-> None]

\* The two shared handles: Arc<Mutex<..>> of accounts_state and of code_db.
Arcs == {"accounts_state", "code_db"}

\* Arc::strong_count: the handle that process_block_trace made and the clones
\* that the futures of the transactions hold.
strong_count(this) == 1 + Cardinality({t \in DOMAIN tasks : this \in tasks[t].arcs})

\* process_block_trace returned Err or panicked: every future it owned is
\* dropped, and with it the guards and the handles it held.
Abort(outcome) ==
    /\ pc' = outcome
    /\ tasks' = [t \in DOMAIN tasks |-> IF tasks[t].pc = "done" THEN tasks[t]
                                        ELSE [tasks[t] EXCEPT !.pc = "dropped", !.pending = {}, !.arcs = {}]]
    /\ accounts_lock' = 0
    /\ code_db_lock' = 0

\* accounts_state.lock().await
LockAccounts(t) ==
    /\ pc = "txs"
    /\ tasks[t].pc = "lock_accounts"
    /\ accounts_lock = 0
    /\ accounts_lock' = t
    /\ tasks' = [tasks EXCEPT ![t].pc = "lock_code_db"]
    /\ UNCHANGED <<pc, block, accounts_state, code_db, code_db_lock, tx_infos>>
    /\ UNCHANGED witness_vars
    /\ UNCHANGED meta_vars

\* A task that goes on to the reconciler without taking the code_db mutex.
LockCodeDb_skip(t) ==
    /\ pc = "txs"
    /\ tasks[t].pc = "lock_code_db"
    /\ tasks' = [tasks EXCEPT ![t].pc = "locked"]
    /\ UNCHANGED <<pc, block, accounts_state, code_db, accounts_lock, code_db_lock, tx_infos>>
    /\ UNCHANGED witness_vars
    /\ UNCHANGED meta_vars

\* code_db.lock().await
LockCodeDb(t) ==
    /\ pc = "txs"
    /\ tasks[t].pc = "lock_code_db"
    /\ code_db_lock = 0
    /\ code_db_lock' = t
    /\ tasks' = [tasks EXCEPT ![t].pc = "locked"]
    /\ UNCHANGED <<pc, block, accounts_state, code_db, accounts_lock, tx_infos>>
    /\ UNCHANGED witness_vars
    /\ UNCHANGED meta_vars

\* The match on (pre_trace, diff_trace): process_tx_traces on the two expected
\* frames, unreachable!() on any other pair.
Reconcile(t) ==
    /\ pc = "txs"
    /\ tasks[t].pc = "locked"
    /\ LET pre_trace == tasks[t].got["pre_trace"].val
           diff_trace == tasks[t].got["diff_trace"].val
           tx == tasks[t].got["tx"].val.val
           access_list == parse_access_list(IF tx.access_list.some THEN tx.access_list.val ELSE <<>>)
       IN  IF pre_trace.frame = "Default" /\ diff_trace.frame = "Diff"
           THEN LET out == process_tx_traces(accounts_state, code_db, access_list, pre_trace.state, diff_trace)
                IN  /\ accounts_state' = out.accounts_state
                    /\ code_db' = out.code_db
                    /\ tasks' = [tasks EXCEPT ![t].pc = "reconciled", ![t].traces = out.traces]
                    /\ UNCHANGED <<pc, accounts_lock, code_db_lock>>
           ELSE /\ Abort("panic")
                /\ UNCHANGED <<accounts_state, code_db>>
    /\ UNCHANGED <<block, tx_infos>>
    /\ UNCHANGED witness_vars
    /\ UNCHANGED meta_vars

\* A collector that puts the newest item first.
ReturnTxnInfo_prepend(t) ==
    /\ pc = "txs"
    /\ tasks[t].pc = "reconciled"
    /\ LET tx == tasks[t].got["tx"].val.val
           tx_receipt == tasks[t].got["tx_receipt"].val.val
           tx_meta == [byte_code |-> tx_rlp(tx),
                       new_txn_trie_node_byte |-> tx_rlp(tx),
                       new_receipt_trie_node_byte |-> compute_receipt_bytes(tx_receipt),
                       gas_used |-> tx_receipt.gas_used.val]
       IN  tx_infos' = <<[meta |-> tx_meta, traces |-> tasks[t].traces]>> \o tx_infos
    /\ accounts_lock' = IF accounts_lock = t THEN 0 ELSE accounts_lock
    /\ code_db_lock' = IF code_db_lock = t THEN 0 ELSE code_db_lock
    /\ tasks' = [tasks EXCEPT ![t].pc = "done", ![t].arcs = {}]
    /\ UNCHANGED <<pc, block, accounts_state, code_db>>
    /\ UNCHANGED witness_vars
    /\ UNCHANGED meta_vars

\* A TxnMeta whose gas_used is the gas limit of the transaction.
ReturnTxnInfo_gas_limit(t) ==
    /\ pc = "txs"
    /\ tasks[t].pc = "reconciled"
    /\ LET tx == tasks[t].got["tx"].val.val
           tx_receipt == tasks[t].got["tx_receipt"].val.val
           tx_meta == [byte_code |-> tx_rlp(tx),
                       new_txn_trie_node_byte |-> tx_rlp(tx),
                       new_receipt_trie_node_byte |-> compute_receipt_bytes(tx_receipt),
                       gas_used |-> tx.gas]
       IN  tx_infos' = Append(tx_infos, [meta |-> tx_meta, traces |-> tasks[t].traces])
    /\ accounts_lock' = IF accounts_lock = t THEN 0 ELSE accounts_lock
    /\ code_db_lock' = IF code_db_lock = t THEN 0 ELSE code_db_lock
    /\ tasks' = [tasks EXCEPT ![t].pc = "done", ![t].arcs = {}]
    /\ UNCHANGED <<pc, block, accounts_state, code_db>>
    /\ UNCHANGED witness_vars
    /\ UNCHANGED meta_vars

\* A task that returns its TxnInfo while its clones of the two handles live on.
ReturnTxnInfo_keep_arcs(t) ==
    /\ pc = "txs"
    /\ tasks[t].pc = "reconciled"
    /\ LET tx == tasks[t].got["tx"].val.val
           tx_receipt == tasks[t].got["tx_receipt"].val.val
           tx_meta == [byte_code |-> tx_rlp(tx),
                       new_txn_trie_node_byte |-> tx_rlp(tx),
                       new_receipt_trie_node_byte |-> compute_receipt_bytes(tx_receipt),
                       gas_used |-> tx_receipt.gas_used.val]
       IN  tx_infos' = Append(tx_infos, [meta |-> tx_meta, traces |-> tasks[t].traces])
    /\ accounts_lock' = IF accounts_lock = t THEN 0 ELSE accounts_lock
    /\ code_db_lock' = IF code_db_lock = t THEN 0 ELSE code_db_lock
    /\ tasks' = [tasks EXCEPT ![t].pc = "done"]
    /\ UNCHANGED <<pc, block, accounts_state, code_db>>
    /\ UNCHANGED witness_vars
    /\ UNCHANGED meta_vars

\* A task that returns its TxnInfo and leaves both mutexes locked.
ReturnTxnInfo_keep_guards(t) ==
    /\ pc = "txs"
    /\ tasks[t].pc = "reconciled"
    /\ LET tx == tasks[t].got["tx"].val.val
           tx_receipt == tasks[t].got["tx_receipt"].val.val
           tx_meta == [byte_code |-> tx_rlp(tx),
                       new_txn_trie_node_byte |-> tx_rlp(tx),
                       new_receipt_trie_node_byte |-> compute_receipt_bytes(tx_receipt),
                       gas_used |-> tx_receipt.gas_used.val]
       IN  tx_infos' = Append(tx_infos, [meta |-> tx_meta, traces |-> tasks[t].traces])
    /\ tasks' = [tasks EXCEPT ![t].pc = "done", ![t].arcs = {}]
    /\ UNCHANGED <<pc, block, accounts_state, code_db, accounts_lock, code_db_lock>>
    /\ UNCHANGED witness_vars
    /\ UNCHANGED meta_vars

\* Ok(TxnInfo { meta, traces }): both guards and both handles of the future are
\* dropped and try_collect pushes the item.
ReturnTxnInfo(t) ==
    /\ pc = "txs"
    /\ tasks[t].pc = "reconciled"
    /\ LET tx == tasks[t].got["tx"].val.val
           tx_receipt == tasks[t].got["tx_receipt"].val.val
           tx_meta == [byte_code |-> tx_rlp(tx),
                       new_txn_trie_node_byte |-> tx_rlp(tx),
                       new_receipt_trie_node_byte |-> compute_receipt_bytes(tx_receipt),
                       gas_used |-> tx_receipt.gas_used.val]
       IN  tx_infos' = Append(tx_infos, [meta |-> tx_meta, traces |-> tasks[t].traces])
    /\ accounts_lock' = IF accounts_lock = t THEN 0 ELSE accounts_lock
    /\ code_db_lock' = IF code_db_lock = t THEN 0 ELSE code_db_lock
    /\ tasks' = [tasks EXCEPT ![t].pc = "done", ![t].arcs = {}]
    /\ UNCHANGED <<pc, block, accounts_state, code_db>>
    /\ UNCHANGED witness_vars
    /\ UNCHANGED meta_vars

(***************************************************************************)
(* Inputs of the reconciler: what the node may answer for one transaction  *)
(***************************************************************************)
\* The word whose most significant byte is 1, and the word whose least significant byte is 1.
WordHi == [i \in 1..WordBytes |-> IF i = 1 THEN 1 ELSE 0]

WordLo == [i \in 1..WordBytes |-> IF i = WordBytes THEN 1 ELSE 0]

AcctState(b, n, c, s) == [balance |-> b, nonce |-> n, code |-> c, storage |-> s]

Storage1(k, w) == [x \in {k} |-> w]

Storage2(w1, w2) == [x \in {"k1", "k2"} |-> IF x = "k1" THEN w1 ELSE w2]

\* Entries of a read-mode (default) prestate trace.
ReadStates ==
    {AcctState(Some(5), Some(0), c, s) :
        c \in {None, Some(CodeA)},
        s \in {None, Some(Storage1("k1", WordLo)), Some(Storage2(WordLo, ZeroWord))}}

\* Entries of the post map of a diff-mode trace: only the changed fields are set.
PostStates ==
    {AcctState(None, None, None, None),
     AcctState(Some(9), Some(2), None, None),
     AcctState(None, None, Some(CodeB), None),
     AcctState(None, Some(2), Some(CodeB), Some(Storage1("k1", WordHi))),
     AcctState(Some(9), None, None, Some(Storage2(WordHi, WordLo))),
     AcctState(None, None, None, Some(Storage1("k2", ZeroWord))),
     AcctState(None, None, None, Some(EmptyMap))}

\* Entries of the pre map of a diff-mode trace.
PreStates ==
    {AcctState(Some(5), Some(0), None, s) :
        s \in {None, Some(Storage1("k1", WordLo)), Some(Storage2(WordLo, WordLo))}}

AccessItem(a, keys) == [address |-> a, storage_keys |-> keys]

\* EIP-2930 items naming address a: none, no key, one key, two items sharing a key.
AccessItemsOf(a) ==
    {<<>>,
     <<AccessItem(a, <<>>)>>,
     <<AccessItem(a, <<"k2">>)>>,
     <<AccessItem(a, <<"k2">>), AccessItem(a, <<"k1", "k2">>)>>}

OptionOf(S) == {None} \cup {Some(x) : x \in S}

\* What one transaction's traces say of address a: [read, pre, post, items].
FullViews(a) == [read : OptionOf(ReadStates), pre : OptionOf(PreStates), post : OptionOf(PostStates), items : AccessItemsOf(a)]

\* A second address seen through at most one of the four sources.
NarrowViews(a) ==
    {[read |-> None, pre |-> None, post |-> None, items |-> <<>>],
     [read |-> Some(AcctState(Some(5), Some(0), None, None)), pre |-> None, post |-> None, items |-> <<>>],
     [read |-> None, pre |-> Some(AcctState(Some(5), Some(0), None, None)), post |-> None, items |-> <<>>],
     [read |-> None, pre |-> None, post |-> Some(AcctState(None, None, Some(CodeA), None)), items |-> <<>>],
     [read |-> None, pre |-> None, post |-> None, items |-> <<AccessItem(a, <<"k1">>)>>]}

\* The map of the addresses whose view has the entry `field`.
TraceMap(views, field) == [a \in {x \in DOMAIN views : views[x][field].some} |-> views[a][field].val]

DefaultFrame(state) == [frame |-> "Default", state |-> state]

DiffFrame(pre, post) == [frame |-> "Diff", pre |-> pre, post |-> post]

\* A transaction as get_transaction returns it; gas is its gas limit.
Transaction(hash, items) ==
    [hash |-> hash, gas |-> 90000, access_list |-> IF items = <<>> THEN None ELSE Some(items)]

Receipt(ty, gas_used) ==
    [transaction_type |-> ty, gas_used |-> gas_used, status |-> Some(1),
     cumulative_gas_used |-> 21000, logs_bloom |-> <<0, 0>>, logs |-> <<>>]

\* The four responses of fetch_tx_data built from per-address views.
ResponsesOf(hash, views, order, receipt) ==
    [k \in TxRequests |->
        CASE k = "tx" -> Some(Some(Transaction(hash, Concat([i \in 1..Len(order) |-> views[order[i]].items]))))
          [] k = "tx_receipt" -> Some(Some(receipt))
          [] k = "pre_trace" -> Some(DefaultFrame(TraceMap(views, "read")))
          [] k = "diff_trace" -> Some(DiffFrame(TraceMap(views, "pre"), TraceMap(views, "post")))]

Block(number, transactions, author, withdrawals) ==
    [number |-> number, transactions |-> transactions, author |-> author, withdrawals |-> withdrawals]

(***************************************************************************)
(* SpecReconcile: process_transaction from the point where fetch_tx_data   *)
(* has returned, on every combination of the views above, starting from    *)
(* the maps as process_block_trace seeds them or as an earlier transaction *)
(* left them.                                                              *)
(***************************************************************************)
InitReconcile ==
    /\ pc = "txs"
    /\ block = Some(Block(Some(7), <<"t0">>, Some("a3"), None))
    /\ accounts_state \in {[a \in {"a3"} |-> {}], [a \in {"a1", "a3"} |-> IF a = "a1" THEN {"k1"} ELSE {}]}
    /\ code_db = EmptyMap
    /\ accounts_lock = 0
    /\ code_db_lock = 0
    /\ \E v1 \in FullViews("a1"), v2 \in NarrowViews("a2") :
          tasks = <<[pc |-> "lock_accounts", pending |-> {}, traces |-> EmptyMap, arcs |-> Arcs,
                     got |-> ResponsesOf("t0", [a \in {"a1", "a2"} |-> IF a = "a1" THEN v1 ELSE v2],
                                         <<"a1", "a2">>, Receipt(Some(2), Some(21000)))]>>
    /\ tx_infos = <<>>
    /\ prev_block = None
    /\ proof_inflight = NoProofs
    /\ proof_got = [s \in ProofStreams |-> {}]
    /\ proof_log = {}
    /\ builders = NoBuilders
    /\ trie_pre_images = None
    /\ block_trace = None
    /\ proofs_left = NoProofsLeft
    /\ MetaIdle

NextReconcile == \E t \in DOMAIN tasks : LockAccounts(t) \/ LockCodeDb(t) \/ Reconcile(t) \/ ReturnTxnInfo(t)

SpecReconcile == InitReconcile /\ [][NextReconcile]_vars

(***************************************************************************)
(* Properties                                                              *)
(***************************************************************************)
\* The tasks that have reconciled their transaction, the traces each was
\* given and the map each emitted.
Reconciled == {t \in DOMAIN tasks : tasks[t].pc \in {"reconciled", "done"}}

ReadTrace(t) == tasks[t].got["pre_trace"].val.state

PreTrace(t) == tasks[t].got["diff_trace"].val.pre

PostTrace(t) == tasks[t].got["diff_trace"].val.post

Emitted(t) == tasks[t].traces

StorageOf(trace, a) == IF a \in DOMAIN trace /\ trace[a].storage.some THEN trace[a].storage.val ELSE EmptyMap

\* C5 (self-destruct law): in the emitted trace map, self_destructed is
\* Some(true) exactly for the addresses that are a key of the diff's pre map
\* and not a key of its post map, and None for every other address.
SelfDestructLaw ==
    \A t \in Reconciled :
        \A a \in DOMAIN Emitted(t) :
            /\ (Emitted(t)[a].self_destructed = Some(TRUE)) <=> (a \in DOMAIN PreTrace(t) /\ a \notin DOMAIN PostTrace(t))
            /\ Emitted(t)[a].self_destructed \in {Some(TRUE), None}
            /\ (a \in DOMAIN PreTrace(t) /\ a \in DOMAIN PostTrace(t)) => Emitted(t)[a].self_destructed = None

\* A transaction destroyed an account: it is in the pre map and not in the post map.
SelfDestructSeen ==
    \E t \in Reconciled :
        \E a \in DOMAIN Emitted(t) :
            /\ a \in DOMAIN PreTrace(t) /\ a \notin DOMAIN PostTrace(t)
            /\ Emitted(t)[a].self_destructed = Some(TRUE)

\* The storage keys the EIP-2930 access list of task t's transaction names for address a.
AccessListed(t, a) ==
    LET tx == tasks[t].got["tx"].val.val
        items == IF tx.access_list.some THEN tx.access_list.val ELSE <<>>
    IN  {k \in StorageKeys : \E i \in DOMAIN items : items[i].address = a /\ k \in Range(items[i].storage_keys)}

\* The addresses the EIP-2930 access list of task t's transaction has an item for.
AccessListAddresses(t) ==
    LET tx == tasks[t].got["tx"].val.val
        items == IF tx.access_list.some THEN tx.access_list.val ELSE <<>>
    IN  {items[i].address : i \in DOMAIN items}

\* C23 (address universe): the trace map a reconciled transaction emitted has
\* one TxnTrace for each address that is a key of the read trace, of the
\* diff's post map, of the diff's pre map or of the access list, and none for
\* any other address.
AddressUniverse ==
    \A t \in Reconciled :
        DOMAIN Emitted(t) =
            ((DOMAIN ReadTrace(t) \cup DOMAIN PostTrace(t)) \cup DOMAIN PreTrace(t)) \cup AccessListAddresses(t)

\* A transaction is reconciled whose second address appears in the diff's
\* post map alone, or in the access list alone, and has its TxnTrace.
AddressUniverseSeen ==
    \E t \in Reconciled :
        /\ "a2" \in DOMAIN Emitted(t)
        /\ "a2" \notin DOMAIN ReadTrace(t) \cup DOMAIN PreTrace(t)
        /\ "a1" \in DOMAIN Emitted(t)
        /\ \/ "a2" \in DOMAIN PostTrace(t) /\ "a2" \notin AccessListAddresses(t)
           \/ "a2" \notin DOMAIN PostTrace(t) /\ "a2" \in AccessListAddresses(t)

\* The storage keys a trace map gives for address a: none when the address
\* is not in the map or has no storage there.
StorageKeysOf(trace, a) == DOMAIN StorageOf(trace, a)

\* C24 (normalization): in every TxnTrace a reconciled transaction emitted,
\* storage_read is never Some of an empty list and storage_written is never
\* Some of an empty map; storage_read is None for an address with no read key
\* (none in the read trace, none in the access list) and storage_written is
\* None for an address with no written key (none in the diff's post map, none
\* in its pre map).
Normalization ==
    \A t \in Reconciled :
        \A a \in DOMAIN Emitted(t) :
            LET trace == Emitted(t)[a]
            IN  /\ trace.storage_read.some => trace.storage_read.val # {}
                /\ trace.storage_written.some => DOMAIN trace.storage_written.val # {}
                /\ (StorageKeysOf(ReadTrace(t), a) \cup AccessListed(t, a) = {}) => trace.storage_read = None
                /\ (StorageKeysOf(PostTrace(t), a) \cup StorageKeysOf(PreTrace(t), a) = {}) => trace.storage_written = None

\* A transaction is reconciled for an address whose post state carries an
\* empty storage map and whose access-list item names no key: both fields of
\* its TxnTrace are None.
NormalizationSeen ==
    \E t \in Reconciled :
        /\ "a1" \in DOMAIN PostTrace(t)
        /\ PostTrace(t)["a1"].storage = Some(EmptyMap)
        /\ "a1" \notin DOMAIN PreTrace(t)
        /\ "a1" \in AccessListAddresses(t)
        /\ AccessListed(t, "a1") = {}
        /\ Emitted(t)["a1"].storage_read = None
        /\ Emitted(t)["a1"].storage_written = None

RECURSIVE BigEndianInt(_, _)
\* The integer a byte string denotes, most significant byte first: the sum of
\* the bytes weighted by 256^(distance from the last byte).
BigEndianInt(w, i) == IF i > Len(w) THEN 0 ELSE w[i] * (256 ^ (Len(w) - i)) + BigEndianInt(w, i + 1)

\* C6 (storage write completeness): every key of pre[a].storage missing from
\* post[a].storage is emitted in storage_written with value 0, and every key of
\* post[a].storage is emitted with the big-endian integer of its post word.
StorageWriteCompleteness ==
    \A t \in Reconciled :
        \A a \in DOMAIN Emitted(t) :
            LET written == Emitted(t)[a].storage_written
                pre == StorageOf(PreTrace(t), a)
                post == StorageOf(PostTrace(t), a)
            IN  /\ \A k \in DOMAIN pre \ DOMAIN post :
                      written.some /\ k \in DOMAIN written.val /\ written.val[k] = 0
                /\ \A k \in DOMAIN post :
                      written.some /\ k \in DOMAIN written.val /\ written.val[k] = BigEndianInt(post[k], 1)

\* One account had a slot deleted (in pre only) and a slot, also in pre, written
\* to a word whose big-endian and little-endian readings differ.
DeletedAndWrittenSeen ==
    \E t \in Reconciled :
        \E a \in DOMAIN Emitted(t) :
            /\ \E k \in DOMAIN StorageOf(PreTrace(t), a) \ DOMAIN StorageOf(PostTrace(t), a) :
                  Emitted(t)[a].storage_written.val[k] = 0
            /\ \E k \in DOMAIN StorageOf(PostTrace(t), a) :
                  /\ k \in DOMAIN StorageOf(PreTrace(t), a)
                  /\ Emitted(t)[a].storage_written.val[k] = 256 ^ (WordBytes - 1)

\* C7 (nonce-on-create): the emitted nonce is post[a].nonce when the diff lists
\* it; otherwise 1 when the emitted code_usage is Write(_), and None when the
\* code_usage is Read(_) or absent.
NonceOnCreate ==
    \A t \in Reconciled :
        \A a \in DOMAIN Emitted(t) :
            LET post_nonce == IF a \in DOMAIN PostTrace(t) THEN PostTrace(t)[a].nonce ELSE None
                usage == Emitted(t)[a].code_usage
            IN  Emitted(t)[a].nonce =
                    IF post_nonce.some THEN post_nonce
                    ELSE IF usage.some /\ usage.val.kind = "Write" THEN Some(1)
                    ELSE None

\* A created contract whose post state lists no nonce.
NonceFallbackSeen ==
    \E t \in Reconciled :
        \E a \in DOMAIN Emitted(t) :
            /\ a \in DOMAIN PostTrace(t)
            /\ ~PostTrace(t)[a].nonce.some
            /\ Emitted(t)[a].code_usage.some
            /\ Emitted(t)[a].code_usage.val.kind = "Write"
            /\ Emitted(t)[a].nonce = Some(1)

\* The "0x"-prefixed lower-case hex string of a byte string.
HexString(bytes) ==
    <<"0", "x">> \o [i \in 1..(2 * Len(bytes)) |->
                        IF i % 2 = 1 THEN HexDigits[(bytes[(i + 1) \div 2] \div 16) + 1]
                        ELSE HexDigits[(bytes[i \div 2] % 16) + 1]]

CodeOf(trace, a) == IF a \in DOMAIN trace THEN trace[a].code ELSE None

\* C13 (code usage): the emitted code_usage is Write(bytes), bytes being the
\* code of post[a], exactly when post[a].code is set; otherwise it is
\* Read(keccak256(code)) exactly when the read trace's entry for a has code,
\* also when post lists a without code; otherwise it is None.  In the Write and
\* in the Read case code_db maps keccak256(code) to the code.
CodeUsageLaw ==
    \A t \in Reconciled :
        \A a \in DOMAIN Emitted(t) :
            LET post_code == CodeOf(PostTrace(t), a)
                read_code == CodeOf(ReadTrace(t), a)
                usage == Emitted(t)[a].code_usage
            IN  /\ post_code.some <=> (usage.some /\ usage.val.kind = "Write")
                /\ post_code.some =>
                      /\ HexString(usage.val.code) = post_code.val
                      /\ Get(code_db, keccak256(usage.val.code)) = Some(usage.val.code)
                /\ (~post_code.some /\ read_code.some) <=> (usage.some /\ usage.val.kind = "Read")
                /\ (~post_code.some /\ read_code.some) =>
                      /\ Get(code_db, usage.val.hash).some
                      /\ HexString(Get(code_db, usage.val.hash).val) = read_code.val
                      /\ keccak256(Get(code_db, usage.val.hash).val) = usage.val.hash
                /\ (~post_code.some /\ ~read_code.some) <=> ~usage.some

\* One transaction read the code of an account its diff lists without code and
\* created a contract at another address.
CodeUsageSeen ==
    \E t \in Reconciled :
        \E a, b \in DOMAIN Emitted(t) :
            /\ a \in DOMAIN PostTrace(t) /\ ~PostTrace(t)[a].code.some
            /\ Emitted(t)[a].code_usage = Some([kind |-> "Read", hash |-> keccak256(<<96, 1>>)])
            /\ Emitted(t)[b].code_usage = Some([kind |-> "Write", code |-> <<96, 1>>])
            /\ b \notin DOMAIN ReadTrace(t)
            /\ Cardinality(DOMAIN code_db) = 1

(***************************************************************************)
(* The remote node: the transactions and blocks it serves                  *)
(***************************************************************************)
TxHashes == {"t1", "t2", "t3", "t4"}

Untouched == [read |-> None, pre |-> None, post |-> None, items |-> <<>>]

Eoa == AcctState(Some(5), Some(0), None, None)

\* t1: a plain transfer from a1 to a2, a legacy transaction.
ViewsT1 ==
    [a \in {"a1", "a2"} |->
        [read |-> Some(Eoa), pre |-> Some(Eoa),
         post |-> Some(AcctState(Some(9), IF a = "a1" THEN Some(2) ELSE None, None, None)),
         items |-> <<>>]]

\* t2: a1 calls contract a2, which reads and rewrites slot k1; the access list names (a2, k2).
ViewsT2 ==
    [a \in {"a1", "a2"} |->
        IF a = "a1"
        THEN [read |-> Some(Eoa), pre |-> Some(Eoa), post |-> Some(AcctState(Some(9), Some(2), None, None)), items |-> <<>>]
        ELSE [read |-> Some(AcctState(Some(5), Some(0), Some(CodeA), Some(Storage1("k1", WordLo)))),
              pre |-> Some(AcctState(Some(5), Some(0), None, Some(Storage1("k1", WordLo)))),
              post |-> Some(AcctState(None, None, None, Some(Storage1("k1", WordHi)))),
              items |-> <<AccessItem("a2", <<"k2">>)>>]]

\* t3: a1 creates contract a3 (the block author) with code CodeB and one slot; contract a2 clears slot k2 and is destroyed.
ViewsT3 ==
    [a \in {"a1", "a2", "a3"} |->
        CASE a = "a1" -> [read |-> Some(Eoa), pre |-> Some(Eoa), post |-> Some(AcctState(Some(9), Some(2), None, None)), items |-> <<>>]
          [] a = "a2" -> [read |-> Some(AcctState(Some(5), Some(0), Some(CodeA), Some(Storage1("k2", WordLo)))),
                          pre |-> Some(AcctState(Some(5), Some(0), None, Some(Storage1("k2", WordLo)))),
                          post |-> None,
                          items |-> <<>>]
          [] a = "a3" -> [read |-> None, pre |-> None,
                          post |-> Some(AcctState(Some(9), None, Some(CodeB), Some(Storage1("k1", WordLo)))),
                          items |-> <<>>]]

\* The four answers of the node for transaction h.  For t4 the node answers the
\* diff-mode request with a default (read-mode) frame.
NodeTx(h) ==
    CASE h = "t1" -> ResponsesOf(h, ViewsT1, <<"a1", "a2">>, Receipt(None, Some(21000)))
      [] h = "t2" -> ResponsesOf(h, ViewsT2, <<"a1", "a2">>, Receipt(Some(1), Some(30000)))
      [] h = "t3" -> ResponsesOf(h, ViewsT3, <<"a1", "a2", "a3">>, Receipt(Some(2), Some(60000)))
      [] h = "t4" -> [ResponsesOf(h, ViewsT1, <<"a1", "a2">>, Receipt(Some(2), Some(21000)))
                        EXCEPT !["diff_trace"] = Some(DefaultFrame(TraceMap(ViewsT1, "read")))]

RECURSIVE SeqsUpTo(_, _)
\* The sequences over S of length at most n.
SeqsUpTo(S, n) ==
    IF n = 0 THEN {<<>>}
    ELSE LET shorter == SeqsUpTo(S, n - 1)
         IN  shorter \cup {Append(q, x) : q \in shorter, x \in S}

Withdrawal(a) == [address |-> a, amount |-> 1]

\* Target blocks: every transaction list of a block with number, author and
\* (maybe) a withdrawal, and blocks of at most one transaction that lack the
\* author or the number or are the genesis block.
Blocks ==
    {Block(Some(7), txs, Some("a3"), w) : txs \in SeqsUpTo(TxHashes, MaxTxs), w \in {None, Some(<<Withdrawal("a4")>>)}}
    \cup {Block(n, txs, Some("a3"), None) : n \in {None, Some(0)}, txs \in SeqsUpTo(TxHashes, 1)}
    \cup {Block(Some(7), txs, None, Some(<<Withdrawal("a4")>>)) : txs \in SeqsUpTo(TxHashes, 1)}

(***************************************************************************)
(* Receipts: the tracer of one transaction over the receipts the node may  *)
(* answer with (rpc/native/txn.rs, compute_receipt_bytes)                  *)
(***************************************************************************)
\* A Log, encoded: [address, topics, data].
EncodedLog == rlp_list(<<rlp_encode([i \in 1..20 |-> 2]), rlp_list(<<>>), rlp_encode(<<1>>)>>)

\* Receipts of every kind of type (unset, zero, below and above one byte),
\* with and without a status, with gas values on both sides of the one-byte
\* encoding, with a bloom of the real 256 bytes and a short one, so that the
\* receipt's RLP falls on both sides of the 56-byte long form.
Receipts ==
    {[transaction_type |-> ty, gas_used |-> Some(21000), status |-> st,
      cumulative_gas_used |-> gas, logs_bloom |-> [i \in 1..bloom |-> 0], logs |-> logs] :
        ty \in {None, Some(0), Some(1), Some(2), Some(256), Some(257)},
        st \in {None, Some(0), Some(1)},
        gas \in {0, 127, 21000},
        bloom \in {2, 256},
        logs \in {<<>>, <<EncodedLog>>}}

InitReceipt ==
    /\ pc = "txs"
    /\ block = Some(Block(Some(7), <<"t0">>, Some("a3"), None))
    /\ accounts_state = [a \in {"a3"} |-> {}]
    /\ code_db = EmptyMap
    /\ accounts_lock = 0
    /\ code_db_lock = 0
    /\ \E receipt \in Receipts :
          tasks = <<[pc |-> "lock_accounts", pending |-> {}, traces |-> EmptyMap, arcs |-> Arcs,
                     got |-> ResponsesOf("t0", ViewsT1, <<"a1", "a2">>, receipt)]>>
    /\ tx_infos = <<>>
    /\ prev_block = None
    /\ proof_inflight = NoProofs
    /\ proof_got = [s \in ProofStreams |-> {}]
    /\ proof_log = {}
    /\ builders = NoBuilders
    /\ trie_pre_images = None
    /\ block_trace = None
    /\ proofs_left = NoProofsLeft
    /\ MetaIdle

SpecReceipt == InitReceipt /\ [][NextReconcile]_vars

\* The receipt the node returned for the i-th collected transaction.
ReceiptOf(i) == tasks[i].got["tx_receipt"].val.val

\* A receipt with a transaction type that is set and not zero.
IsTyped(receipt) == receipt.transaction_type.some /\ receipt.transaction_type.val # 0

\* `bytes` is the canonical RLP of a byte string, and that string is `payload`.
DecodesToString(bytes, payload) ==
    LET info == rlp_payload_info(bytes)
    IN  /\ info.ok
        /\ ~info.list
        /\ info.header_len + info.value_len = Len(bytes)
        /\ SubSeq(bytes, info.header_len + 1, Len(bytes)) = payload

\* C8: the receipt bytes of a collected transaction are rlp(receipt) when the
\* receipt's type is unset or zero; otherwise they decode as one RLP byte
\* string that is the type byte followed by rlp(receipt).
ReceiptEncoding ==
    \A i \in DOMAIN tx_infos :
        IF IsTyped(ReceiptOf(i))
        THEN DecodesToString(tx_infos[i].meta.new_receipt_trie_node_byte,
                             <<ReceiptOf(i).transaction_type.val % 256>> \o rlp_encode_receipt(ReceiptOf(i)))
        ELSE tx_infos[i].meta.new_receipt_trie_node_byte = rlp_encode_receipt(ReceiptOf(i))

\* A typed receipt has been collected whose RLP takes the long form, and its
\* bytes are longer than the receipt's own RLP.
ReceiptEncodingSeen ==
    \E i \in DOMAIN tx_infos :
        /\ IsTyped(ReceiptOf(i))
        /\ Len(rlp_encode_receipt(ReceiptOf(i))) >= 56
        /\ Len(tx_infos[i].meta.new_receipt_trie_node_byte) > Len(rlp_encode_receipt(ReceiptOf(i)))

(***************************************************************************)
(* SpecOrder: the reconcilers of a block's transactions in every order.    *)
(* Every process_transaction future has its four responses and waits for   *)
(* the accounts_state mutex, so the mutex alone decides who runs next.      *)
(***************************************************************************)
\* The transaction lists whose reconcilers are run in every order.
OrderedTxs == {txs \in SeqsUpTo({"t1", "t2", "t3"}, MaxTxs + 1) : Len(txs) >= 2}

InitOrder ==
    /\ pc = "txs"
    /\ \E txs \in OrderedTxs :
          /\ block = Some(Block(Some(7), txs, Some("a3"), None))
          /\ tasks = [i \in DOMAIN txs |->
                         [pc |-> "lock_accounts", pending |-> {}, traces |-> EmptyMap, arcs |-> Arcs, got |-> NodeTx(txs[i])]]
    /\ accounts_state = [a \in {"a3"} |-> {}]
    /\ code_db = EmptyMap
    /\ accounts_lock = 0
    /\ code_db_lock = 0
    /\ tx_infos = <<>>
    /\ prev_block = None
    /\ proof_inflight = NoProofs
    /\ proof_got = [s \in ProofStreams |-> {}]
    /\ proof_log = {}
    /\ builders = NoBuilders
    /\ trie_pre_images = None
    /\ block_trace = None
    /\ proofs_left = NoProofsLeft
    /\ MetaIdle

SpecOrder == InitOrder /\ [][NextReconcile]_vars

RECURSIVE ReconciledInBlockOrder(_, _, _, _)
\* accounts_state and code_db after process_tx_traces has run for the
\* transactions txs[i..], one after the other in the order of the block.
ReconciledInBlockOrder(accounts, db, txs, i) ==
    IF i > Len(txs) THEN [accounts_state |-> accounts, code_db |-> db]
    ELSE Let(NodeTx(txs[i]), LAMBDA got :
         Let(process_tx_traces(accounts, db,
                               parse_access_list(IF got["tx"].val.val.access_list.some
                                                 THEN got["tx"].val.val.access_list.val ELSE <<>>),
                               got["pre_trace"].val.state, got["diff_trace"].val), LAMBDA out :
             ReconciledInBlockOrder(out.accounts_state, out.code_db, txs, i + 1)))

\* C11 (order independence): once every reconciler of the block has run, in
\* whatever order the mutex let them in, accounts_state and code_db are what
\* running them in the order of the block gives.
OrderIndependence ==
    (\A t \in DOMAIN tasks : tasks[t].pc \in {"reconciled", "done"}) =>
        /\ accounts_state = ReconciledInBlockOrder([a \in {"a3"} |-> {}], EmptyMap, block.val.transactions, 1).accounts_state
        /\ code_db = ReconciledInBlockOrder([a \in {"a3"} |-> {}], EmptyMap, block.val.transactions, 1).code_db

\* The reconcilers of two different transactions have run against the order
\* of the block, both inserted the same code, and two codes are in code_db.
OrderIndependenceSeen ==
    /\ \A t \in DOMAIN tasks : tasks[t].pc = "done"
    /\ Len(tx_infos) >= 2
    /\ tx_infos[1].meta.byte_code = <<"rlp", block.val.transactions[2]>>
    /\ block.val.transactions[1] # block.val.transactions[2]
    /\ Cardinality(DOMAIN code_db) >= 2
    /\ \E i, j \in DOMAIN tx_infos :
          /\ i # j
          /\ \E a \in DOMAIN tx_infos[i].traces, b \in DOMAIN tx_infos[j].traces :
                /\ tx_infos[i].traces[a].code_usage.some
                /\ tx_infos[i].traces[a].code_usage = tx_infos[j].traces[b].code_usage

(***************************************************************************)
(* The remote node: its tries and the proofs it serves                     *)
(***************************************************************************)
RECURSIVE CommonPrefixLen(_, _)
\* How many nibbles after the first d all the keys share.
CommonPrefixLen(keys, d) ==
    IF \E k \in keys : d < Len(k) /\ \A other \in keys : other[d + 1] = k[d + 1]
    THEN 1 + CommonPrefixLen(keys, d + 1)
    ELSE 0

RECURSIVE TrieOf(_, _)
\* The Merkle-Patricia trie of a set of [key, value] entries whose keys are
\* nibble paths of one length and agree on their first d nibbles.
TrieOf(entries, d) ==
    IF entries = {} THEN EmptyNode
    ELSE LET any == CHOOSE e \in entries : TRUE
             shared == CommonPrefixLen({e.key : e \in entries}, d)
         IN  IF Cardinality(entries) = 1 THEN LeafNode(SubSeq(any.key, d + 1, Len(any.key)), any.value)
             ELSE IF shared > 0 THEN ExtensionNode(SubSeq(any.key, d + 1, d + shared), TrieOf(entries, d + shared))
             ELSE BranchNode([n \in 0..15 |-> TrieOf({e \in entries : e.key[d + 1] = n}, d + 1)], <<>>)

RECURSIVE PathNodes(_, _)
\* The nodes met from `node` down the path `key`.
PathNodes(node, key) ==
    CASE node.kind = "Branch" ->
            <<node>> \o (IF Len(key) = 0 THEN <<>> ELSE PathNodes(node.children[key[1]], Tail(key)))
      [] node.kind = "Extension" ->
            <<node>> \o (IF Len(key) >= Len(node.nibbles) /\ SubSeq(key, 1, Len(node.nibbles)) = node.nibbles
                         THEN PathNodes(node.child, SubSeq(key, Len(node.nibbles) + 1, Len(key)))
                         ELSE <<>>)
      [] node.kind = "Leaf" -> <<node>>
      [] OTHER -> <<>>

\* A Merkle proof as eth_getProof lists it: the RLP of the root and of every
\* node on the path that its parent references by hash.
Prove(trie, key) ==
    Let(PathNodes(trie, key), LAMBDA path :
        IF Len(path) = 0 THEN <<>>
        ELSE <<node_rlp(path[1])>>
             \o SelectSeq([i \in 1..(Len(path) - 1) |-> node_rlp(path[i + 1])], LAMBDA e : Len(e) >= HashLen))

\* The 20 bytes of an address and the 32 bytes of a storage key.
H160(a) == [i \in 1..20 |-> IF i < 20 THEN 0 ELSE CASE a = "a1" -> 1 [] a = "a2" -> 2 [] a = "a3" -> 3 [] a = "a4" -> 4 [] OTHER -> 9]

H256(k) == [i \in 1..HashLen |-> IF i > 1 THEN 0 ELSE IF k = "k1" THEN 1 ELSE 2]

H256Zero == [i \in 1..HashLen |-> 0]

RECURSIVE TrimZeros(_)
TrimZeros(bytes) == IF Len(bytes) > 0 /\ bytes[1] = 0 THEN TrimZeros(Tail(bytes)) ELSE bytes

\* The storage trie of an account: keccak256(key) -> rlp(value), zero slots left out.
StorageTrie(storage) ==
    TrieOf({[key |-> from_bytes_be(keccak256(H256(k))), value |-> rlp_encode(TrimZeros(storage[k]))] :
                k \in {x \in DOMAIN storage : storage[x] # ZeroWord}}, 0)

Account(nonce, balance, code, storage) == [nonce |-> nonce, balance |-> balance, code |-> code, storage |-> storage]

\* The leaf value of an account: rlp([nonce, balance, storage_root, code_hash]).
AccountRlp(account) ==
    rlp_list(<<rlp_encode(be_bytes(account.nonce)), rlp_encode(be_bytes(account.balance)),
               rlp_encode(trie_hash(StorageTrie(account.storage))), rlp_encode(keccak256(account.code))>>)

\* The state trie of a world: keccak256(address) -> rlp(account).
StateTrie(world) ==
    TrieOf({[key |-> from_bytes_be(keccak256(H160(a))), value |-> AccountRlp(world[a])] : a \in DOMAIN world}, 0)

\* The block the catalogue's full blocks carry as their number.
HeadNumber == 7

\* The world before the head block: a1 is an externally owned account, a2 a
\* contract with two slots, a9 an account no transaction touches; a3 and a4
\* do not exist yet.
WorldBefore ==
    [a \in {"a1", "a2", "a9"} |->
        CASE a = "a1" -> Account(0, 5, <<>>, EmptyMap)
          [] a = "a2" -> Account(0, 5, hex_decode(SubSeq(CodeA, 3, Len(CodeA))), Storage2(WordLo, WordLo))
          [] a = "a9" -> Account(3, 1, <<>>, EmptyMap)]

\* The world after the head block: a1 has paid, a2 has rewritten a slot and
\* cleared the other, the author a3 and the withdrawal address a4 exist.
WorldAfter ==
    [a \in {"a1", "a2", "a3", "a4", "a9"} |->
        CASE a = "a1" -> Account(2, 3, <<>>, EmptyMap)
          [] a = "a2" -> Account(0, 5, hex_decode(SubSeq(CodeA, 3, Len(CodeA))), Storage2(WordHi, ZeroWord))
          [] a = "a3" -> Account(0, 2, <<>>, EmptyMap)
          [] a = "a4" -> Account(0, 1, <<>>, EmptyMap)
          [] a = "a9" -> Account(3, 1, <<>>, EmptyMap)]

NodeWorld(n) == IF n < HeadNumber THEN WorldBefore ELSE WorldAfter

\* The header fields of block n that the witness builder reads.
NodeBlock(n) == [number |-> Some(n), state_root |-> trie_hash(StateTrie(NodeWorld(n)))]

\* The answer to get_proof(address, keys, tag); for an account that does not
\* exist the node reports the zero hash as storage_hash.
NodeProof(address, keys, tag) ==
    Let(NodeWorld(tag), LAMBDA world :
    Let(IF address \in DOMAIN world THEN StorageTrie(world[address].storage) ELSE EmptyNode, LAMBDA storage_trie :
        [account_proof |-> Prove(StateTrie(world), from_bytes_be(keccak256(H160(address)))),
         storage_hash |-> IF address \in DOMAIN world THEN trie_hash(storage_trie) ELSE H256Zero,
         storage_proof |-> [k \in keys |-> Prove(storage_trie, from_bytes_be(keccak256(H256(k))))]]))

(***************************************************************************)
(* State witness (rpc/native/state.rs, generate_state_witness)             *)
(***************************************************************************)
RECURSIVE insert_storage_proofs(_, _, _)
\* storage_mpt.insert_proof(proof.proof) for each entry of proof.storage_proof.
insert_storage_proofs(storage_mpt, storage_proof, keys) ==
    IF keys = {} THEN storage_mpt
    ELSE LET k == CHOOSE x \in keys : TRUE
         IN  insert_storage_proofs(insert_proof(storage_mpt, storage_proof[k]), storage_proof, keys \ {k})

\* One turn of the first loop: the account proof goes into the state builder,
\* and the address gets a storage builder rooted at storage_hash unless it has
\* one; the storage proofs go into it.
insert_account_proof(witness, address, proof) ==
    Let(keccak256(H160(address)), LAMBDA hashed :
        [witness EXCEPT
            !.state = insert_proof(witness.state, proof.account_proof),
            !.storage = Put(witness.storage, hashed,
                            insert_storage_proofs(IF hashed \in DOMAIN witness.storage THEN witness.storage[hashed]
                                                  ELSE PartialTrieBuilder(proof.storage_hash, EmptyMap),
                                                  proof.storage_proof, DOMAIN proof.storage_proof))])

RECURSIVE insert_account_proofs(_, _)
\* The first loop.  The nodes are stored by hash, so the iteration order does
\* not show.
insert_account_proofs(witness, account_proofs) ==
    IF account_proofs = {} THEN witness
    ELSE Let(CHOOSE x \in account_proofs : TRUE, LAMBDA item :
             insert_account_proofs(
                 insert_account_proof(witness, item.address,
                                      NodeProof(item.proof.address, item.proof.keys, item.proof.block)),
                 account_proofs \ {item}))

RECURSIVE insert_storage_variants(_, _, _)
\* storage_mpt.insert_if_empty_short_node_variants_from_proof(proof.proof) for
\* each entry of proof.storage_proof.
insert_storage_variants(storage_mpt, storage_proof, keys) ==
    IF keys = {} THEN [ok |-> TRUE, builder |-> storage_mpt]
    ELSE Let(CHOOSE x \in keys : TRUE, LAMBDA k :
         Let(insert_if_empty_short_node_variants_from_proof(storage_mpt, storage_proof[k]), LAMBDA added :
             IF added.ok THEN insert_storage_variants(added.builder, storage_proof, keys \ {k}) ELSE added))

\* One turn of the second loop: the short-node variants of a proof against
\* the target block, for the state builder and for the storage builder the
\* address has; ok turns FALSE when a node does not decode.
insert_next_account_proof(witness, address, proof) ==
    Let(keccak256(H160(address)), LAMBDA hashed :
    Let(insert_if_empty_short_node_variants_from_proof(witness.state, proof.account_proof), LAMBDA added :
    Let(IF hashed \in DOMAIN witness.storage
        THEN insert_storage_variants(witness.storage[hashed], proof.storage_proof, DOMAIN proof.storage_proof)
        ELSE [ok |-> TRUE, builder |-> None], LAMBDA storage_added :
        [ok |-> added.ok /\ storage_added.ok,
         state |-> added.builder,
         storage |-> IF hashed \in DOMAIN witness.storage
                     THEN Put(witness.storage, hashed, storage_added.builder)
                     ELSE witness.storage])))

RECURSIVE insert_next_account_proofs(_, _)
\* The second loop.
insert_next_account_proofs(witness, next_account_proofs) ==
    IF next_account_proofs = {} \/ ~witness.ok THEN witness
    ELSE Let(CHOOSE x \in next_account_proofs : TRUE, LAMBDA item :
             insert_next_account_proofs(
                 insert_next_account_proof(witness, item.address,
                                           NodeProof(item.proof.address, item.proof.keys, item.proof.block)),
                 next_account_proofs \ {item}))

\* The builders once both sets of proofs are in: [ok, state, storage].
generate_state_witness(prev_state_root, account_proofs, next_account_proofs) ==
    insert_next_account_proofs(
        insert_account_proofs([ok |-> TRUE, state |-> PartialTrieBuilder(prev_state_root, EmptyMap), storage |-> EmptyMap],
                              account_proofs),
        next_account_proofs)

\* process_state_witness: the builders are built into the tries of the witness.
process_state_witness(prev_state_root, account_proofs, next_account_proofs) ==
    Let(generate_state_witness(prev_state_root, account_proofs, next_account_proofs), LAMBDA witness :
        IF witness.ok THEN build_all(witness.state, witness.storage) ELSE None)

(***************************************************************************)
(* Orchestrator (rpc/native/block.rs) and state witness builder            *)
(* (rpc/native/state.rs)                                                   *)
(***************************************************************************)
Init ==
    /\ pc = "get_block"
    /\ block = None
    /\ accounts_state = EmptyMap
    /\ code_db = EmptyMap
    /\ accounts_lock = 0
    /\ code_db_lock = 0
    /\ tasks = <<>>
    /\ tx_infos = <<>>
    /\ prev_block = None
    /\ proof_inflight = NoProofs
    /\ proof_got = [s \in ProofStreams |-> {}]
    /\ proof_log = {}
    /\ builders = NoBuilders
    /\ trie_pre_images = None
    /\ block_trace = None
    /\ proofs_left = NoProofsLeft
    /\ MetaIdle

\* A block whose withdrawal addresses are left out of the seeding: only the
\* author is inserted into accounts_state.
RecvBlock_author_only ==
    /\ pc = "get_block"
    /\ \E b \in Blocks :
          /\ block' = Some(b)
          /\ IF b.author.some
             THEN /\ accounts_state' = [a \in {b.author.val} |-> {}]
                  /\ pc' = "txs"
             ELSE /\ accounts_state' = accounts_state
                  /\ pc' = "error"
    /\ UNCHANGED <<code_db, accounts_lock, code_db_lock, tasks, tx_infos>>
    /\ UNCHANGED witness_vars
    /\ UNCHANGED meta_vars

\* provider.get_block(block_number) answers: the block is kept and the maps are
\* seeded with the withdrawal addresses and the author.
RecvBlock ==
    /\ pc = "get_block"
    /\ \E b \in Blocks :
          /\ block' = Some(b)
          /\ IF b.author.some
             THEN LET seeded == (IF b.withdrawals.some THEN {w.address : w \in Range(b.withdrawals.val)} ELSE {}) \cup {b.author.val}
                  IN  /\ accounts_state' = [a \in seeded |-> {}]
                      /\ pc' = "txs"
             ELSE /\ accounts_state' = accounts_state
                  /\ pc' = "error"
    /\ UNCHANGED <<code_db, accounts_lock, code_db_lock, tasks, tx_infos>>
    /\ UNCHANGED witness_vars
    /\ UNCHANGED meta_vars

\* The get_block request fails or finds no block.
FailBlock ==
    /\ pc = "get_block"
    /\ pc' = "error"
    /\ UNCHANGED <<block, accounts_state, code_db, accounts_lock, code_db_lock, tasks, tx_infos>>
    /\ UNCHANGED witness_vars
    /\ UNCHANGED meta_vars

\* `then` pulls the next transaction hash only when the future of the previous
\* one has completed; the closure clones both handles into the new future,
\* which runs fetch_tx_data and sends its four requests.
StartTransaction ==
    /\ pc = "txs"
    /\ \A t \in DOMAIN tasks : tasks[t].pc = "done"
    /\ Len(tasks) < Len(block.val.transactions)
    /\ tasks' = Append(tasks, [pc |-> "fetch", pending |-> TxRequests, got |-> NoResponses, traces |-> EmptyMap,
                               arcs |-> Arcs])
    /\ UNCHANGED <<pc, block, accounts_state, code_db, accounts_lock, code_db_lock, tx_infos>>
    /\ UNCHANGED witness_vars
    /\ UNCHANGED meta_vars

\* One of the four requests of task t answers.  With the last answer try_join!
\* returns and process_transaction runs up to accounts_state.lock().
RecvTxResponse(t, k) ==
    /\ pc = "txs"
    /\ tasks[t].pc = "fetch"
    /\ k \in tasks[t].pending
    /\ LET got == [tasks[t].got EXCEPT ![k] = NodeTx(block.val.transactions[t])[k]]
       IN  IF tasks[t].pending = {k}
           THEN IF got["tx"].val.some /\ got["tx_receipt"].val.some
                THEN IF got["tx_receipt"].val.val.gas_used.some
                     THEN /\ tasks' = [tasks EXCEPT ![t].got = got, ![t].pending = {}, ![t].pc = "lock_accounts"]
                          /\ UNCHANGED <<pc, accounts_lock, code_db_lock>>
                     ELSE Abort("panic")
                ELSE Abort("error")
           ELSE /\ tasks' = [tasks EXCEPT ![t].got = got, ![t].pending = @ \ {k}]
                /\ UNCHANGED <<pc, accounts_lock, code_db_lock>>
    /\ UNCHANGED <<block, accounts_state, code_db, tx_infos>>
    /\ UNCHANGED witness_vars
    /\ UNCHANGED meta_vars

\* One of the four requests of task t fails: try_join! returns the error at
\* once and `?` carries it out of process_block_trace.
FailTxResponse(t, k) ==
    /\ pc = "txs"
    /\ tasks[t].pc = "fetch"
    /\ k \in tasks[t].pending
    /\ Abort("error")
    /\ UNCHANGED <<block, accounts_state, code_db, tx_infos>>
    /\ UNCHANGED witness_vars
    /\ UNCHANGED meta_vars

\* A witness build that starts as soon as the first transaction future exists,
\* without waiting for the stream of transactions to end.
FetchPrevBlock_early ==
    /\ pc = "txs"
    /\ Len(tasks) >= 1
    /\ IF ~block.val.number.some THEN pc' = "error"
       ELSE IF block.val.number.val = 0 THEN pc' = "panic"
       ELSE pc' = "get_prev_block"
    /\ UNCHANGED <<block, accounts_state, code_db, accounts_lock, code_db_lock, tasks, tx_infos>>
    /\ UNCHANGED witness_vars
    /\ UNCHANGED meta_vars

\* try_collect has every TxnInfo: process_state_witness unwraps the map, reads
\* the block number and asks for the parent block.
FetchPrevBlock ==
    /\ pc = "txs"
    /\ Len(tasks) = Len(block.val.transactions)
    /\ \A t \in DOMAIN tasks : tasks[t].pc = "done"
    /\ IF strong_count("accounts_state") # 1 THEN pc' = "error"
       ELSE IF ~block.val.number.some THEN pc' = "error"
       ELSE IF block.val.number.val = 0 THEN pc' = "panic"
       ELSE pc' = "get_prev_block"
    /\ UNCHANGED <<block, accounts_state, code_db, accounts_lock, code_db_lock, tasks, tx_infos>>
    /\ UNCHANGED witness_vars
    /\ UNCHANGED meta_vars

\* A request that asks for the account alone, whatever keys were recorded for it.
ProofRequest_no_keys(stream, address) ==
    [address |-> address,
     keys |-> {},
     block |-> IF stream = "account_proofs" THEN block.val.number.val - 1 ELSE block.val.number.val]

\* The get_proof request a stream of fetch_proof_data sends for `address`.
ProofRequest(stream, address) ==
    [address |-> address,
     keys |-> accounts_state[address],
     block |-> IF stream = "account_proofs" THEN block.val.number.val - 1 ELSE block.val.number.val]

\* The parent block answers: generate_state_witness starts and try_join! polls
\* both streams, each sending the request of its first (address, keys) entry.
RecvPrevBlock ==
    /\ pc = "get_prev_block"
    /\ prev_block' = Some(NodeBlock(block.val.number.val - 1))
    /\ pc' = "proofs"
    /\ \E first \in [ProofStreams -> DOMAIN accounts_state] :
          /\ proof_inflight' = [s \in ProofStreams |-> Some(first[s])]
          /\ proof_log' = proof_log \cup {ProofRequest(s, first[s]) : s \in ProofStreams}
    /\ UNCHANGED <<block, accounts_state, code_db, accounts_lock, code_db_lock, tasks, tx_infos, proof_got>>
    /\ UNCHANGED trie_vars
    /\ UNCHANGED meta_vars
    /\ UNCHANGED block_trace

\* The request for the parent block fails or finds no block.
FailPrevBlock ==
    /\ pc = "get_prev_block"
    /\ pc' = "error"
    /\ UNCHANGED <<block, accounts_state, code_db, accounts_lock, code_db_lock, tasks, tx_infos>>
    /\ UNCHANGED witness_vars
    /\ UNCHANGED meta_vars

\* A stream's pending get_proof answers: the item is collected and the stream
\* sends the request of its next entry, if any (one request per stream at a
\* time).  The response is a function of the request, so the item keeps the
\* request and NodeProof is looked up where the response is read.
RecvProof(s) ==
    /\ pc = "proofs"
    /\ proof_inflight[s].some
    /\ LET a == proof_inflight[s].val
           req == ProofRequest(s, a)
           item == [address |-> a, keys |-> accounts_state[a], proof |-> req]
           rest == DOMAIN accounts_state \ ({x.address : x \in proof_got[s]} \cup {a})
       IN  /\ proof_got' = [proof_got EXCEPT ![s] = @ \cup {item}]
           /\ IF rest = {}
              THEN /\ proof_inflight' = [proof_inflight EXCEPT ![s] = None]
                   /\ proof_log' = proof_log
              ELSE \E next \in rest :
                      /\ proof_inflight' = [proof_inflight EXCEPT ![s] = Some(next)]
                      /\ proof_log' = proof_log \cup {ProofRequest(s, next)}
    /\ UNCHANGED <<pc, block, accounts_state, code_db, accounts_lock, code_db_lock, tasks, tx_infos, prev_block>>
    /\ UNCHANGED trie_vars
    /\ UNCHANGED meta_vars
    /\ UNCHANGED block_trace

\* A stream that ends quietly when its request fails, with what it has collected.
FailProof_skip(s) ==
    /\ pc = "proofs"
    /\ proof_inflight[s].some
    /\ proof_inflight' = [proof_inflight EXCEPT ![s] = None]
    /\ UNCHANGED <<pc, block, accounts_state, code_db, accounts_lock, code_db_lock, tasks, tx_infos, prev_block, proof_log>>
    /\ UNCHANGED proof_got
    /\ UNCHANGED trie_vars
    /\ UNCHANGED meta_vars
    /\ UNCHANGED block_trace

\* A get_proof request fails: try_join! returns the error and both streams are
\* dropped with what they had collected.
FailProof(s) ==
    /\ pc = "proofs"
    /\ proof_inflight[s].some
    /\ pc' = "error"
    /\ proof_inflight' = NoProofs
    /\ proof_got' = [x \in ProofStreams |-> {}]
    /\ UNCHANGED <<block, accounts_state, code_db, accounts_lock, code_db_lock, tasks, tx_infos, prev_block, proof_log>>
    /\ UNCHANGED trie_vars
    /\ UNCHANGED meta_vars
    /\ UNCHANGED block_trace

\* A BlockTrace whose code_db field is always present.
BlockTrace_code_db_always(txn_info, db, tries) ==
    [txn_info |-> txn_info, code_db |-> Some(db), trie_pre_images |-> tries]

\* BlockTrace { txn_info, code_db: Option::from(code_db).filter(|x| !x.is_empty()), trie_pre_images }
BlockTrace(txn_info, db, tries) ==
    [txn_info |-> txn_info,
     code_db |-> IF DOMAIN db = {} THEN None ELSE Some(db),
     trie_pre_images |-> tries]

\* Both streams are collected: the proofs are inserted, the tries are built,
\* code_db is taken out of its handle and process_block_trace returns
\* Ok(BlockTrace), unless a decoder panics or the handle has another owner.
ReturnBlockTrace ==
    /\ pc = "proofs"
    /\ \A s \in ProofStreams : ~proof_inflight[s].some
    /\ trie_pre_images' = process_state_witness(prev_block.val.state_root, proof_got["account_proofs"],
                                                proof_got["next_account_proofs"])
    /\ pc' = IF ~trie_pre_images'.some THEN "panic"
             ELSE IF strong_count("code_db") # 1 THEN "error"
             ELSE "done"
    /\ block_trace' = IF pc' = "done"
                      THEN Some(BlockTrace(tx_infos, code_db, trie_pre_images'.val))
                      ELSE None
    /\ UNCHANGED <<block, accounts_state, code_db, accounts_lock, code_db_lock, tasks, tx_infos, builders>>
    /\ UNCHANGED <<prev_block, proof_inflight, proof_got, proof_log, proofs_left>>
    /\ UNCHANGED meta_vars

Next ==
    \/ RecvBlock
    \/ FailBlock
    \/ StartTransaction
    \/ \E t \in DOMAIN tasks, k \in TxRequests : RecvTxResponse(t, k)
    \/ \E t \in DOMAIN tasks, k \in TxRequests : FailTxResponse(t, k)
    \/ \E t \in DOMAIN tasks : LockAccounts(t)
    \/ \E t \in DOMAIN tasks : LockCodeDb(t)
    \/ \E t \in DOMAIN tasks : Reconcile(t)
    \/ \E t \in DOMAIN tasks : ReturnTxnInfo(t)
    \/ FetchPrevBlock
    \/ RecvPrevBlock
    \/ FailPrevBlock
    \/ \E s \in ProofStreams : RecvProof(s)
    \/ \E s \in ProofStreams : FailProof(s)
    \/ ReturnBlockTrace

Spec == Init /\ [][Next]_vars

(***************************************************************************)
(* The trie builders on their own: generate_state_witness and the builds of *)
(* process_state_witness (rpc/native/state.rs), one loop turn at a time,    *)
(* over every set of accessed addresses and with a node that may answer     *)
(* one request with nodes that are not of the trie.                         *)
(***************************************************************************)
\* An answer whose account proof holds bytes that are no RLP list and a
\* well-formed leaf that no node of the trie references.
JunkProof(address, keys, tag) ==
    [NodeProof(address, keys, tag) EXCEPT
        !.account_proof = <<<<1, 2, 3>>, rlp_list(<<rlp_encode(<<32, 1>>), rlp_encode(<<7>>)>>)>>]

\* The addresses whose requests the node may answer with such a proof.
JunkAddresses == {"a4"}

\* The (address, keys, proof) entries fetch_proof_data collects for a block tag.
ProofItems(accessed, tag, junk) ==
    {[address |-> a, keys |-> accessed[a],
      proof |-> IF a \in junk THEN JunkProof(a, accessed[a], tag) ELSE NodeProof(a, accessed[a], tag)] :
        a \in DOMAIN accessed}

\* The access sets the builders are tried on: any addresses, a2 with any of its slots.
AccessSets ==
    {[a \in as |-> IF a = "a2" THEN keys ELSE {}] : as \in SUBSET Addresses \ {{}}, keys \in SUBSET StorageKeys}

\* generate_state_witness has created the state builder and fetch_proof_data
\* has answered with both sets of proofs.
InitTrie ==
    /\ pc = "account_proofs"
    /\ block = None
    /\ accounts_state \in AccessSets
    /\ code_db = EmptyMap
    /\ accounts_lock = 0
    /\ code_db_lock = 0
    /\ tasks = <<>>
    /\ tx_infos = <<>>
    /\ prev_block = Some(NodeBlock(HeadNumber - 1))
    /\ proof_inflight = NoProofs
    /\ proof_got = [s \in ProofStreams |-> {}]
    /\ proof_log = {}
    /\ builders = [state |-> Some(PartialTrieBuilder(prev_block.val.state_root, EmptyMap)), storage |-> EmptyMap]
    /\ trie_pre_images = None
    /\ block_trace = None
    /\ \E junk, next_junk \in {{}} \cup {{a} : a \in DOMAIN accounts_state \cap JunkAddresses} :
          proofs_left = [now |-> ProofItems(accounts_state, HeadNumber - 1, junk),
                         next |-> ProofItems(accounts_state, HeadNumber, next_junk)]
    /\ MetaIdle

\* One turn of the loop over account_proofs.
InsertAccountProof ==
    /\ pc = "account_proofs"
    /\ \E item \in proofs_left.now :
          /\ Let(insert_account_proof([ok |-> TRUE, state |-> builders.state.val, storage |-> builders.storage],
                                      item.address, item.proof), LAMBDA witness :
                 builders' = [state |-> Some(witness.state), storage |-> witness.storage])
          /\ proofs_left' = [proofs_left EXCEPT !.now = @ \ {item}]
          /\ pc' = IF proofs_left.now = {item} THEN "next_account_proofs" ELSE pc
    /\ UNCHANGED <<block, accounts_state, code_db, accounts_lock, code_db_lock, tasks, tx_infos>>
    /\ UNCHANGED <<prev_block, proof_inflight, proof_got, proof_log, trie_pre_images>>
    /\ UNCHANGED meta_vars
    /\ UNCHANGED block_trace

\* One turn of the loop over next_account_proofs.
InsertNextAccountProof ==
    /\ pc = "next_account_proofs"
    /\ \E item \in proofs_left.next :
          /\ Let(insert_next_account_proof([ok |-> TRUE, state |-> builders.state.val, storage |-> builders.storage],
                                           item.address, item.proof), LAMBDA witness :
                 IF witness.ok
                 THEN /\ builders' = [state |-> Some(witness.state), storage |-> witness.storage]
                      /\ pc' = pc
                 ELSE /\ builders' = NoBuilders
                      /\ pc' = "panic")
          /\ proofs_left' = [proofs_left EXCEPT !.next = @ \ {item}]
    /\ UNCHANGED <<block, accounts_state, code_db, accounts_lock, code_db_lock, tasks, tx_infos>>
    /\ UNCHANGED <<prev_block, proof_inflight, proof_got, proof_log, trie_pre_images>>
    /\ UNCHANGED meta_vars
    /\ UNCHANGED block_trace

\* generate_state_witness returns the builders and process_state_witness
\* builds them, which consumes them.
BuildTries ==
    /\ pc = "next_account_proofs"
    /\ proofs_left.next = {}
    /\ trie_pre_images' = build_all(builders.state.val, builders.storage)
    /\ builders' = NoBuilders
    /\ pc' = IF trie_pre_images'.some THEN "done" ELSE "panic"
    /\ UNCHANGED <<block, accounts_state, code_db, accounts_lock, code_db_lock, tasks, tx_infos>>
    /\ UNCHANGED <<prev_block, proof_inflight, proof_got, proof_log, proofs_left>>
    /\ UNCHANGED meta_vars
    /\ UNCHANGED block_trace

NextTrie == InsertAccountProof \/ InsertNextAccountProof \/ BuildTries

SpecTrie == InitTrie /\ [][NextTrie]_vars

\* The storage tries of the witness are those of the addresses whose hash is h.
AddressesHashedTo(h) == {a \in Addresses : keccak256(H160(a)) = h}

\* C9: every built state trie hashes to the state root of the parent block,
\* and every built storage trie to the storage_hash that the node reported
\* for its address at the parent block, whatever proofs went into the builders.
RootEquivalence ==
    trie_pre_images.some =>
        /\ trie_hash(trie_pre_images.val.state) = prev_block.val.state_root
        /\ \A h \in DOMAIN trie_pre_images.val.storage :
              \E a \in AddressesHashedTo(h) :
                 trie_hash(trie_pre_images.val.storage[h]) = NodeProof(a, {}, prev_block.val.number.val).storage_hash

\* Tries have been built from proofs that resolve the root of the state trie
\* and the root of a storage trie, for accesses that include an address the
\* parent state does not hold.
RootEquivalenceSeen ==
    /\ trie_pre_images.some
    /\ trie_pre_images.val.state.kind \notin {"Hash", "Empty"}
    /\ \E h \in DOMAIN trie_pre_images.val.storage : trie_pre_images.val.storage[h].kind \notin {"Hash", "Empty"}
    /\ \E a \in DOMAIN accounts_state : a \notin DOMAIN NodeWorld(prev_block.val.number.val)

\* The builders generate_state_witness holds, each with the proofs that the
\* node has served for it and that are not inserted yet: the state builder
\* with the account proofs of both blocks, the storage builder of an address
\* with the proofs of its accessed slots.
BuildersAndProofs ==
    Let(proofs_left.now \cup proofs_left.next, LAMBDA items :
        (IF builders.state.some
         THEN {[builder |-> builders.state.val, proofs |-> {item.proof.account_proof : item \in items}]}
         ELSE {})
        \cup {[builder |-> builders.storage[h],
               proofs |-> UNION {{item.proof.storage_proof[k] : k \in DOMAIN item.proof.storage_proof} :
                                    item \in {x \in items : keccak256(H160(x.address)) = h}}] :
                  h \in DOMAIN builders.storage})

\* C25 (insert_proof is keyed by content hash and idempotent): in every
\* builder, every entry of the node map is stored under the keccak256 of its
\* bytes; inserting a served proof keeps the root and stores each of its
\* nodes, unaltered, under its hash, and adds no other entry; inserting it a
\* second time changes nothing, and neither does inserting a proof whose
\* nodes are all present; two proofs inserted in either order give the same
\* builder, hence the same build.
InsertProofIdempotent ==
    \A bp \in BuildersAndProofs :
        Let(bp.builder, LAMBDA b :
            /\ \A h \in DOMAIN b.nodes : keccak256(b.nodes[h]) = h
            /\ \A p \in bp.proofs :
                  Let(insert_proof(b, p), LAMBDA once :
                      /\ once.root = b.root
                      /\ \A i \in DOMAIN p : keccak256(p[i]) \in DOMAIN once.nodes /\ once.nodes[keccak256(p[i])] = p[i]
                      /\ \A h \in DOMAIN once.nodes : h \in DOMAIN b.nodes \/ \E i \in DOMAIN p : h = keccak256(p[i])
                      /\ insert_proof(once, p) = once
                      /\ (\A i \in DOMAIN p : keccak256(p[i]) \in DOMAIN b.nodes) => once = b
                      /\ \A q \in bp.proofs : insert_proof(insert_proof(b, q), p) = insert_proof(once, q)))

\* The state builder holds the account proof of one address or more; of the
\* proofs still to be inserted, one has all its nodes in the builder and
\* another has a node the builder lacks.
InsertProofIdempotentSeen ==
    /\ pc = "account_proofs"
    /\ builders.state.some
    /\ DOMAIN builders.state.val.nodes # {}
    /\ \E p, q \in {item.proof.account_proof : item \in proofs_left.now} :
          /\ Len(p) >= 2
          /\ \A i \in DOMAIN p : keccak256(p[i]) \in DOMAIN builders.state.val.nodes
          /\ \E i \in DOMAIN q : keccak256(q[i]) \notin DOMAIN builders.state.val.nodes

RECURSIVE SubNodes(_)
\* The nodes of a trie: the node itself and the nodes of its children.
SubNodes(node) ==
    {node} \cup
    CASE node.kind = "Extension" -> SubNodes(node.child)
      [] node.kind = "Branch" -> UNION {SubNodes(node.children[i]) : i \in 0..15}
      [] OTHER -> {}

\* What build() made of a builder: the stub Hash(root) when the map has no
\* node for the root; every Hash stub of the trie names a hash the map has no
\* node for; every other node is inlined in its parent or stored in the map.
BuiltFrom(trie, builder) ==
    /\ builder.root \notin DOMAIN builder.nodes => trie = HashNode(builder.root)
    /\ builder.root \in DOMAIN builder.nodes => trie.kind \in {"Leaf", "Extension", "Branch"}
    /\ \A n \in SubNodes(trie) :
          /\ n.kind = "Hash" => n.hash \notin DOMAIN builder.nodes
          /\ n.kind \in {"Leaf", "Extension", "Branch"} =>
                \/ n # trie /\ Len(node_rlp(n)) < HashLen
                \/ /\ keccak256(node_rlp(n)) \in DOMAIN builder.nodes
                   /\ builder.nodes[keccak256(node_rlp(n))] = node_rlp(n)

\* C17 (hash stubs): when the builders are built into a witness, a builder
\* whose root is not a key of its node map gives the single stub Hash(root);
\* a hashed child becomes a Hash stub exactly when the map has no node under
\* that hash and is decoded from the stored bytes otherwise, so that every
\* node of the built trie is in the map, inlined, or a Hash stub.
HashStubs ==
    [][(pc = "next_account_proofs" /\ trie_pre_images'.some) =>
          /\ BuiltFrom(trie_pre_images'.val.state, builders.state.val)
          /\ DOMAIN trie_pre_images'.val.storage = DOMAIN builders.storage
          /\ \A h \in DOMAIN builders.storage :
                BuiltFrom(trie_pre_images'.val.storage[h], builders.storage[h])]_vars

\* The witness holds a storage trie that is a single Hash stub, beside a state
\* trie whose decoded root reaches both a Hash stub and a node decoded through
\* its hash.
HashStubsSeen ==
    /\ trie_pre_images.some
    /\ \E h \in DOMAIN trie_pre_images.val.storage : trie_pre_images.val.storage[h].kind = "Hash"
    /\ trie_pre_images.val.state.kind \in {"Extension", "Branch"}
    /\ \E n \in SubNodes(trie_pre_images.val.state) : n.kind = "Hash"
    /\ \E n \in SubNodes(trie_pre_images.val.state) :
          /\ n # trie_pre_images.val.state
          /\ n.kind \in {"Leaf", "Extension", "Branch"}
          /\ Len(node_rlp(n)) >= HashLen

(***************************************************************************)
(* SpecDecode: the state builder is given one node, stored under the       *)
(* parent state root, and is built: decode_node on every shape of list.    *)
(***************************************************************************)
\* A child reference of 32 bytes that no node is stored under.
AbsentChild == [i \in 1..HashLen |-> 9]

\* The item lists of the root node: every count around 2 and 17, and for two
\* items every kind of flag nibble, with an even or odd path and a value or a
\* hashed child as second item.
RootItems ==
    {[i \in 1..n |-> <<>>] : n \in {0, 1, 3, 16, 17, 18}}
    \cup {[i \in 1..n |-> IF i = n THEN <<7>> ELSE <<>>] : n \in {3, 17, 18}}
    \cup {[i \in 1..17 |-> IF i = 4 THEN AbsentChild ELSE <<>>]}
    \cup {<<<<16 * hi + lo>> \o tail, second>> :
            hi \in {0, 1, 2, 3, 4, 8, 15}, lo \in {0, 5}, tail \in {<<>>, <<103>>}, second \in {<<7>>, AbsentChild}}
    \cup {<<<<>>, second>> : second \in {<<7>>, AbsentChild}}

\* The node as the proof carries it.
RootNode(items) == rlp_list([i \in DOMAIN items |-> rlp_encode(items[i])])

InitDecode ==
    /\ pc = "account_proofs"
    /\ block = None
    /\ accounts_state = [a \in {"a1"} |-> {}]
    /\ code_db = EmptyMap
    /\ accounts_lock = 0
    /\ code_db_lock = 0
    /\ tasks = <<>>
    /\ tx_infos = <<>>
    /\ \E items \in RootItems :
          /\ prev_block = Some([number |-> Some(HeadNumber - 1), state_root |-> keccak256(RootNode(items))])
          /\ proofs_left =
                [s \in {"now", "next"} |->
                    {[address |-> "a1", keys |-> {},
                      proof |-> [account_proof |-> <<RootNode(items)>>, storage_hash |-> H256Zero,
                                 storage_proof |-> EmptyMap]]}]
    /\ proof_inflight = NoProofs
    /\ proof_got = [s \in ProofStreams |-> {}]
    /\ proof_log = {}
    /\ builders = [state |-> Some(PartialTrieBuilder(prev_block.val.state_root, EmptyMap)), storage |-> EmptyMap]
    /\ trie_pre_images = None
    /\ block_trace = None
    /\ MetaIdle

SpecDecode == InitDecode /\ [][NextTrie]_vars

\* The items of the node stored under the parent state root.
ItemsAtRoot == CHOOSE items \in RootItems : keccak256(RootNode(items)) = prev_block.val.state_root

\* The nibbles of a hex-prefix path after its flag nibble.
AfterFlag(path) == Tail(from_bytes_be(path))

\* The path a flag nibble announces: the nibble after an even flag is padding.
PathOf(path) == IF (path[1] \div 16) % 2 = 0 THEN Tail(AfterFlag(path)) ELSE AfterFlag(path)

\* The build has ended, with tries or with a panic.
BuildEnded == pc \in {"done", "panic"}

\* C18 (node classification): a list of 17 items is built as a branch; a list
\* of 2 items is an extension when the high nibble of its first path byte is 0
\* or 1 and a leaf when it is 2 or 3, the nibble after the flag being dropped
\* from the path exactly when the flag is even; a list of any other length, or
\* of 2 items with an empty path or any other flag, ends the build without a trie.
NodeClassification ==
    BuildEnded =>
        Let(ItemsAtRoot, LAMBDA items :
            /\ (pc = "done") <=> trie_pre_images.some
            /\ Len(items) = 17 =>
                  /\ trie_pre_images.some
                  /\ trie_pre_images.val.state.kind = "Branch"
                  /\ trie_pre_images.val.state.value = items[17]
            /\ (Len(items) = 2 /\ items[1] # <<>> /\ items[1][1] \div 16 \in {0, 1}) =>
                  /\ trie_pre_images.some <=> (Len(items[2]) = HashLen)
                  /\ trie_pre_images.some =>
                        /\ trie_pre_images.val.state.kind = "Extension"
                        /\ trie_pre_images.val.state.nibbles = PathOf(items[1])
                        /\ trie_pre_images.val.state.child = HashNode(items[2])
            /\ (Len(items) = 2 /\ items[1] # <<>> /\ items[1][1] \div 16 \in {2, 3}) =>
                  /\ trie_pre_images.some
                  /\ trie_pre_images.val.state = LeafNode(PathOf(items[1]), items[2])
            /\ Len(items) \notin {2, 17} => ~trie_pre_images.some
            /\ (Len(items) = 2 /\ (items[1] = <<>> \/ items[1][1] \div 16 \notin {0, 1, 2, 3})) =>
                  ~trie_pre_images.some)

\* A two-item node whose flag nibble is above 3 has ended the build with a panic.
NodeClassificationSeen ==
    /\ pc = "panic"
    /\ ~trie_pre_images.some
    /\ Len(ItemsAtRoot) = 2
    /\ ItemsAtRoot[1] # <<>>
    /\ ItemsAtRoot[1][1] \div 16 > 3

\* A leaf with an even flag and an extension with an odd flag have been built.
EvenLeafSeen ==
    /\ pc = "done"
    /\ trie_pre_images.val.state.kind = "Leaf"
    /\ ItemsAtRoot[1][1] \div 16 = 2
    /\ Len(trie_pre_images.val.state.nibbles) = 2 * Len(ItemsAtRoot[1]) - 2

OddExtensionSeen ==
    /\ pc = "done"
    /\ trie_pre_images.val.state.kind = "Extension"
    /\ ItemsAtRoot[1][1] \div 16 = 1
    /\ Len(trie_pre_images.val.state.nibbles) = 2 * Len(ItemsAtRoot[1]) - 1

(***************************************************************************)
(* Block metadata assembler (metadata.rs, fetch_other_block_data) and the  *)
(* previous-hash fetch of the older jerigon client (rpc/jerigon.rs)        *)
(***************************************************************************)
\* Length of the prev_hashes array: 256 in the source, scaled.
PrevHashesLen == 4

\* The highest block number asked for.
MaxBlockNumber == 6

\* The hash of block n of the node's chain, and the parent hash in its header
\* (the zero hash for the genesis block).
BlockHash(n) == [i \in 1..HashLen |-> IF i = 1 THEN 255 ELSE IF i = HashLen THEN n ELSE 0]

ParentHash(n) == IF n = 0 THEN H256Zero ELSE BlockHash(n - 1)

\* The logs bloom of block n: 256 bytes.  The 32-byte chunk numbered n % 8
\* (from 0) holds n + 1 in its last byte, 1 + n % 3 in the byte before it and
\* n % 2 two bytes before that; the last byte of the bloom has bit 7 set,
\* the first chunk has 3 in its fourth byte from the end.
ChainBloom(n) ==
    [i \in 1..256 |->
        IF i = 32 * (n % 8) + 32 THEN n + 1
        ELSE IF i = 32 * (n % 8) + 31 THEN 1 + (n % 3)
        ELSE IF i = 32 * (n % 8) + 30 THEN n % 2
        ELSE IF i = 256 THEN 128
        ELSE IF i = 29 THEN 3
        ELSE 0]

\* Block n as get_block returns it.
ChainBlock(n) ==
    [header |-> [number |-> Some(n), hash |-> Some(BlockHash(n)), parent_hash |-> ParentHash(n),
                 state_root |-> [i \in 1..HashLen |-> IF i = 1 THEN 254 ELSE IF i = HashLen THEN n ELSE 0],
                 miner |-> H160("a3"), timestamp |-> 1000 + n, difficulty |-> 0,
                 mix_hash |-> Some([i \in 1..HashLen |-> IF i = 1 THEN 253 ELSE 0]),
                 gas_limit |-> 30000, base_fee_per_gas |-> Some(7), gas_used |-> 21000,
                 logs_bloom |-> ChainBloom(n)],
     withdrawals |-> Some(<<[address |-> H160("a4"), amount |-> 1]>>)]

\* The optional fields a node may leave out of the target block.
OptionalFields == {"number", "hash", "mix_hash", "base_fee_per_gas"}

\* The answers to get_block(target_block_id): the block, with or without
\* withdrawals, or with one optional header field missing.
TargetBlocks(n) ==
    {ChainBlock(n), [ChainBlock(n) EXCEPT !.withdrawals = None]}
    \cup {[ChainBlock(n) EXCEPT !.header = [f \in DOMAIN @ |-> IF f = missing THEN None ELSE @[f]]] :
            missing \in OptionalFields}

\* compat.rs: a B256 or an Address becomes an H256 or an H160 over the same bytes.
to_primitive(arr) == [i \in 1..Len(arr) |-> arr[i]]

\* <[u8]>::chunks_exact: the full chunks of chunk_size bytes, in order; the
\* bytes after the last full chunk are left out.
chunks_exact(src, chunk_size) ==
    [k \in 1..(Len(src) \div chunk_size) |-> SubSeq(src, chunk_size * (k - 1) + 1, chunk_size * k)]

\* Words taken from the chunks last to first.
bloom_to_primitive_reversed(src) ==
    Let(chunks_exact(src, 32), LAMBDA chunks :
        IF Len(chunks) < 8 \/ Len(chunks) - 8 # 0
        THEN [ok |-> FALSE, dst |-> <<>>]
        ELSE [ok |-> TRUE, dst |-> [ix \in 1..8 |-> from_big_endian(chunks[9 - ix])]])

\* compat.rs: the 256 bytes of a Bloom as eight U256, each read big-endian
\* from the next chunk of 32 bytes; [ok, dst], ok FALSE when it panics: a
\* chunk is missing (chunks.next().unwrap()) or chunks are left over
\* (assert_eq!(chunks.len(), 0)).
bloom_to_primitive(src) ==
    Let(chunks_exact(src, 32), LAMBDA chunks :
        IF Len(chunks) < 8 \/ Len(chunks) - 8 # 0
        THEN [ok |-> FALSE, dst |-> <<>>]
        ELSE [ok |-> TRUE, dst |-> [ix \in 1..8 |-> from_big_endian(chunks[ix])]])

\* How many futures the zip of the reversed slots with N, N - 1, .., 0 yields.
FetchCount(n) == IF n + 1 < PrevHashesLen THEN n + 1 ELSE PrevHashesLen

InitMeta ==
    /\ pc = "idle"
    /\ block = None
    /\ accounts_state = EmptyMap
    /\ code_db = EmptyMap
    /\ accounts_lock = 0
    /\ code_db_lock = 0
    /\ tasks = <<>>
    /\ tx_infos = <<>>
    /\ prev_block = None
    /\ proof_inflight = NoProofs
    /\ proof_got = [s \in ProofStreams |-> {}]
    /\ proof_log = {}
    /\ builders = NoBuilders
    /\ trie_pre_images = None
    /\ block_trace = None
    /\ proofs_left = NoProofsLeft
    /\ meta_pc = "get_target_block"
    /\ target_block_id \in 0..MaxBlockNumber
    /\ target_block = None
    /\ chain_id = None
    /\ checkpoint_state_trie_root = None
    /\ prev_hashes = <<>>
    /\ hash_fetches = <<>>
    /\ other_data = None
    /\ previous_block_hashes = [state |-> "idle"]

\* What the assembler leaves alone.
UnchangedByMeta ==
    UNCHANGED <<pc, block, accounts_state, code_db, accounts_lock, code_db_lock, tasks, tx_infos, prev_block,
                proof_inflight, proof_got, proof_log, builders, trie_pre_images, block_trace, proofs_left, target_block_id>>

\* get_block(target_block_id) answers; the block number is read.
RecvTargetBlock ==
    /\ meta_pc = "get_target_block"
    /\ \E b \in TargetBlocks(target_block_id) :
          /\ target_block' = Some(b)
          /\ meta_pc' = IF b.header.number.some THEN "get_chain_id" ELSE "error"
    /\ UNCHANGED <<chain_id, checkpoint_state_trie_root, prev_hashes, hash_fetches, other_data, previous_block_hashes>>
    /\ UnchangedByMeta

\* get_block(target_block_id) fails or finds no block.
FailTargetBlock ==
    /\ meta_pc = "get_target_block"
    /\ meta_pc' = "error"
    /\ UNCHANGED <<target_block, chain_id, checkpoint_state_trie_root, prev_hashes, hash_fetches, other_data,
                   previous_block_hashes>>
    /\ UnchangedByMeta

\* get_chain_id answers.
RecvChainId ==
    /\ meta_pc = "get_chain_id"
    /\ chain_id' = Some(1)
    /\ meta_pc' = "get_checkpoint_block"
    /\ UNCHANGED <<target_block, checkpoint_state_trie_root, prev_hashes, hash_fetches, other_data,
                   previous_block_hashes>>
    /\ UnchangedByMeta

\* get_chain_id fails.
FailChainId ==
    /\ meta_pc = "get_chain_id"
    /\ meta_pc' = "error"
    /\ UNCHANGED <<target_block, chain_id, checkpoint_state_trie_root, prev_hashes, hash_fetches, other_data,
                   previous_block_hashes>>
    /\ UnchangedByMeta

\* get_block(checkpoint_block_id) answers (the checkpoint is the genesis
\* block); prev_hashes is zeroed and the first poll of the buffered stream
\* creates every future, the concurrency being the length of the array.
RecvCheckpointBlock ==
    /\ meta_pc = "get_checkpoint_block"
    /\ checkpoint_state_trie_root' = Some(ChainBlock(0).header.state_root)
    /\ prev_hashes' = [i \in 1..PrevHashesLen |-> H256Zero]
    /\ hash_fetches' = [j \in 1..FetchCount(target_block.val.header.number.val) |-> "pending"]
    /\ meta_pc' = "prev_hashes"
    /\ UNCHANGED <<target_block, chain_id, other_data, previous_block_hashes>>
    /\ UnchangedByMeta

\* get_block(checkpoint_block_id) fails or finds no block.
FailCheckpointBlock ==
    /\ meta_pc = "get_checkpoint_block"
    /\ meta_pc' = "error"
    /\ UNCHANGED <<target_block, chain_id, checkpoint_state_trie_root, prev_hashes, hash_fetches, other_data,
                   previous_block_hashes>>
    /\ UnchangedByMeta

\* An assembler whose j-th future writes the j-th slot from the left.
RecvAncestorBlock_ltr(j) ==
    /\ meta_pc = "prev_hashes"
    /\ j \in DOMAIN hash_fetches
    /\ hash_fetches[j] = "pending"
    /\ prev_hashes' = [prev_hashes EXCEPT ![j] =
                           ChainBlock(target_block.val.header.number.val - (j - 1)).header.parent_hash]
    /\ hash_fetches' = [hash_fetches EXCEPT ![j] = "done"]
    /\ UNCHANGED <<meta_pc, target_block, chain_id, checkpoint_state_trie_root, other_data, previous_block_hashes>>
    /\ UnchangedByMeta

\* The j-th future of the stream (j from 1) completes: it asked for block
\* N - (j - 1) and writes that block's parent hash to its own slot, the j-th
\* from the right.
RecvAncestorBlock(j) ==
    /\ meta_pc = "prev_hashes"
    /\ j \in DOMAIN hash_fetches
    /\ hash_fetches[j] = "pending"
    /\ prev_hashes' = [prev_hashes EXCEPT ![PrevHashesLen + 1 - j] =
                           ChainBlock(target_block.val.header.number.val - (j - 1)).header.parent_hash]
    /\ hash_fetches' = [hash_fetches EXCEPT ![j] = "done"]
    /\ UNCHANGED <<meta_pc, target_block, chain_id, checkpoint_state_trie_root, other_data, previous_block_hashes>>
    /\ UnchangedByMeta

\* The j-th future fails: the request failed or the node has no such block.
FailAncestorBlock(j) ==
    /\ meta_pc = "prev_hashes"
    /\ j \in DOMAIN hash_fetches
    /\ hash_fetches[j] = "pending"
    /\ hash_fetches' = [hash_fetches EXCEPT ![j] = "failed"]
    /\ UNCHANGED <<meta_pc, target_block, chain_id, checkpoint_state_trie_root, prev_hashes, other_data,
                   previous_block_hashes>>
    /\ UnchangedByMeta

\* buffered yields the outcomes in stream order: try_collect returns the error
\* of a failed future once every future before it has completed.
ReturnPrevHashesError ==
    /\ meta_pc = "prev_hashes"
    /\ \E j \in DOMAIN hash_fetches :
          /\ hash_fetches[j] = "failed"
          /\ \A i \in 1..(j - 1) : hash_fetches[i] = "done"
    /\ meta_pc' = "error"
    /\ UNCHANGED <<target_block, chain_id, checkpoint_state_trie_root, prev_hashes, hash_fetches, other_data,
                   previous_block_hashes>>
    /\ UnchangedByMeta

\* The OtherBlockData of a target block whose optional fields are all there.
OtherBlockData(target, header) ==
    [b_data |->
        [b_meta |-> [block_beneficiary |-> to_primitive(header.miner),
                     block_timestamp |-> header.timestamp,
                     block_number |-> header.number.val,
                     block_difficulty |-> header.difficulty,
                     block_random |-> to_primitive(header.mix_hash.val),
                     block_gaslimit |-> header.gas_limit,
                     block_chain_id |-> chain_id.val,
                     block_base_fee |-> header.base_fee_per_gas.val,
                     block_gas_used |-> header.gas_used,
                     block_bloom |-> bloom_to_primitive(header.logs_bloom).dst],
         b_hashes |-> [prev_hashes |-> [i \in 1..PrevHashesLen |-> to_primitive(prev_hashes[i])],
                       cur_hash |-> to_primitive(header.hash.val)],
         withdrawals |-> IF target.withdrawals.some
                         THEN [i \in DOMAIN target.withdrawals.val |->
                                  <<to_primitive(target.withdrawals.val[i].address), target.withdrawals.val[i].amount>>]
                         ELSE <<>>],
     checkpoint_state_trie_root |-> to_primitive(checkpoint_state_trie_root.val)]

\* Every future has completed: OtherBlockData is put together, unless the
\* target block lacks mix_hash, base_fee_per_gas or hash, or the unpacking of
\* the bloom panics.
ReturnOtherBlockData ==
    /\ meta_pc = "prev_hashes"
    /\ \A j \in DOMAIN hash_fetches : hash_fetches[j] = "done"
    /\ IF /\ target_block.val.header.mix_hash.some
          /\ target_block.val.header.base_fee_per_gas.some
       THEN IF ~bloom_to_primitive(target_block.val.header.logs_bloom).ok
            THEN /\ other_data' = other_data
                 /\ meta_pc' = "panic"
            ELSE IF target_block.val.header.hash.some
            THEN /\ other_data' = Some(OtherBlockData(target_block.val, target_block.val.header))
                 /\ meta_pc' = "done"
            ELSE /\ other_data' = other_data
                 /\ meta_pc' = "error"
       ELSE /\ other_data' = other_data
            /\ meta_pc' = "error"
    /\ UNCHANGED <<target_block, chain_id, checkpoint_state_trie_root, prev_hashes, hash_fetches,
                   previous_block_hashes>>
    /\ UnchangedByMeta

RECURSIVE push_responses_no_skip(_, _, _, _)
\* A loop that pushes the parent hash of the start block as well.
push_responses_no_skip(hashes, n, start, block_number) ==
    IF n > block_number THEN hashes
    ELSE push_responses_no_skip(
             IF n = block_number THEN Append(hashes, ChainBlock(n).header.parent_hash)
             ELSE hashes \o <<ChainBlock(n).header.parent_hash, ChainBlock(n).header.hash.val>>,
             n + 2, start, block_number)

RECURSIVE push_responses(_, _, _, _)
\* The while loop of fetch_previous_block_hashes over the responses for the
\* blocks n, n + 2, .. up to block_number.
push_responses(hashes, n, start, block_number) ==
    IF n > block_number THEN hashes
    ELSE push_responses(
             IF n = block_number THEN Append(hashes, ChainBlock(n).header.parent_hash)
             ELSE IF n # start THEN hashes \o <<ChainBlock(n).header.parent_hash, ChainBlock(n).header.hash.val>>
             ELSE Append(hashes, ChainBlock(n).header.hash.val),
             n + 2, start, block_number)

\* The start of the fetched range and the number of padding slots.
saturating_sub(a, b) == IF a > b THEN a - b ELSE 0

\* jerigon's fetch_previous_block_hashes when every fetch answers: zero
\* padding first, then the hashes of the blocks before block_number.
fetch_previous_block_hashes(block_number) ==
    IF block_number = 0 THEN [i \in 1..PrevHashesLen |-> H256Zero]
    ELSE push_responses([i \in 1..saturating_sub(PrevHashesLen, block_number) |-> H256Zero],
                        saturating_sub(block_number, PrevHashesLen),
                        saturating_sub(block_number, PrevHashesLen), block_number)

\* fetch_previous_block_hashes(target_block_id) returns, with the hashes and
\* the numbers of the blocks it fetched (start, start + 2, ..), or with the
\* error of a fetch.
FetchPreviousBlockHashes ==
    /\ previous_block_hashes.state = "idle"
    /\ \/ previous_block_hashes' =
             [state |-> "ok", hashes |-> fetch_previous_block_hashes(target_block_id),
              fetched |-> IF target_block_id = 0 THEN {}
                          ELSE {n \in saturating_sub(target_block_id, PrevHashesLen)..target_block_id :
                                   (n - saturating_sub(target_block_id, PrevHashesLen)) % 2 = 0}]
       \/ /\ target_block_id > 0
          /\ previous_block_hashes' = [state |-> "error"]
    /\ UNCHANGED <<meta_pc, target_block, chain_id, checkpoint_state_trie_root, prev_hashes, hash_fetches, other_data>>
    /\ UnchangedByMeta

NextMeta ==
    \/ RecvTargetBlock
    \/ FailTargetBlock
    \/ RecvChainId
    \/ FailChainId
    \/ RecvCheckpointBlock
    \/ FailCheckpointBlock
    \/ \E j \in 1..PrevHashesLen : RecvAncestorBlock(j)
    \/ \E j \in 1..PrevHashesLen : FailAncestorBlock(j)
    \/ ReturnPrevHashesError
    \/ ReturnOtherBlockData
    \/ FetchPreviousBlockHashes

SpecMeta == InitMeta /\ [][NextMeta]_vars

\* The arrays of previous hashes that have been returned.
ReturnedPrevHashes ==
    (IF other_data.some THEN {other_data.val.b_data.b_hashes.prev_hashes} ELSE {})
    \cup (IF previous_block_hashes.state = "ok" THEN {previous_block_hashes.hashes} ELSE {})

\* The layout as first stated: slot i, counted from 0 at the first slot, holds
\* the parent hash of block N - i when N - i > 0 and zero otherwise.
PrevHashLayoutNewestFirst ==
    \A P \in ReturnedPrevHashes :
        /\ Len(P) = PrevHashesLen
        /\ \A i \in 0..(PrevHashesLen - 1) :
              P[i + 1] = IF target_block_id - i > 0 THEN ParentHash(target_block_id - i) ELSE H256Zero

\* C4, amended: the array of previous hashes is filled from the right.  The
\* slot that is i places before the last one holds the parent hash of block
\* N - i when N - i > 0 and zero otherwise, so the newest hash is last and the
\* zero padding comes first, whatever the order in which the fetches completed.
PrevHashLayout ==
    \A P \in ReturnedPrevHashes :
        /\ Len(P) = PrevHashesLen
        /\ \A i \in 0..(PrevHashesLen - 1) :
              P[PrevHashesLen - i] = IF target_block_id - i > 0 THEN ParentHash(target_block_id - i) ELSE H256Zero

\* Both functions have returned an array for a target block that has fewer
\* ancestors than the array has slots, so that padding and hashes both show.
PrevHashLayoutSeen ==
    /\ other_data.some
    /\ previous_block_hashes.state = "ok"
    /\ target_block_id > 1
    /\ target_block_id < PrevHashesLen

\* C28 (previous block hashes of the jerigon client): for every target block
\* N the returned list has exactly PrevHashesLen entries; the first
\* max(0, PrevHashesLen - N) are zero and the others are the hashes of the
\* blocks max(0, N - PrevHashesLen) .. N - 1 in increasing height, each once,
\* the last being the parent hash of the target block; and only every second
\* block of the range was fetched.
BlockHashWindow ==
    previous_block_hashes.state = "ok" =>
        LET P == previous_block_hashes.hashes
            N == target_block_id
            start == IF N > PrevHashesLen THEN N - PrevHashesLen ELSE 0
            pad == IF PrevHashesLen > N THEN PrevHashesLen - N ELSE 0
        IN  /\ Len(P) = PrevHashesLen
            /\ \A i \in 1..pad : P[i] = H256Zero
            /\ \A j \in 0..(N - start - 1) : P[pad + 1 + j] = BlockHash(start + j)
            /\ \A i, j \in (pad + 1)..Len(P) : i # j => P[i] # P[j]
            /\ N > 0 => P[Len(P)] = ChainBlock(N).header.parent_hash
            /\ \A n \in previous_block_hashes.fetched : n + 1 \notin previous_block_hashes.fetched
            /\ 2 * Cardinality(previous_block_hashes.fetched) <= (N - start) + 2

\* The list has been returned for an odd target block that has more
\* ancestors than the list has entries.
BlockHashWindowSeen ==
    /\ previous_block_hashes.state = "ok"
    /\ target_block_id > PrevHashesLen
    /\ target_block_id % 2 = 1
    /\ Cardinality(previous_block_hashes.fetched) < PrevHashesLen

\* C22 (bloom unpacking): the unpacking of the target block's 256-byte logs
\* bloom never panics and consumes every byte, and the block_bloom of the
\* returned OtherBlockData has exactly eight words, word i being the
\* big-endian integer of bytes 32 * (i - 1) + 1 .. 32 * i of the bloom: its
\* base-256 digit of weight 256^k is the byte k places before the end of the
\* chunk (the blooms of the chain have zero bytes above weight 256^3).
BloomUnpacking ==
    /\ meta_pc # "panic"
    /\ target_block.some =>
          Let(target_block.val.header.logs_bloom, LAMBDA src :
          Let(bloom_to_primitive(src), LAMBDA unpacked :
              /\ Len(src) = 256
              /\ unpacked.ok
              /\ 32 * Len(chunks_exact(src, 32)) = Len(src)
              /\ DOMAIN unpacked.dst = 1..8
              /\ \A i \in 1..8 :
                    /\ \A k \in 0..3 : (unpacked.dst[i] \div (256 ^ k)) % 256 = src[32 * i - k]
                    /\ unpacked.dst[i] \div (256 ^ 3) < 256
                    /\ \A k \in 4..31 : src[32 * i - k] = 0
              /\ other_data.some => other_data.val.b_data.b_meta.block_bloom = unpacked.dst))

\* OtherBlockData has been returned for a bloom with bytes set in three of
\* its chunks, one of them with more than one byte set.
BloomUnpackingSeen ==
    /\ other_data.some
    /\ LET dst == other_data.val.b_data.b_meta.block_bloom
       IN  /\ Cardinality({i \in 1..8 : dst[i] # 0}) = 3
           /\ dst[1] = 3 * (256 ^ 3)
           /\ dst[8] = 128
           /\ \E i \in 2..7 : dst[i] > 256 /\ dst[i] % 256 # 0

(***************************************************************************)
(* prover_input (native/mod.rs): try_join! of process_block_trace and      *)
(* fetch_other_block_data for the same block                               *)
(***************************************************************************)
\* try_join! is still waiting: neither future has returned Err or panicked.
Joined == pc \notin {"error", "panic"} /\ meta_pc \notin {"error", "panic"}

InitProver ==
    /\ pc = "get_block"
    /\ block = None
    /\ accounts_state = EmptyMap
    /\ code_db = EmptyMap
    /\ accounts_lock = 0
    /\ code_db_lock = 0
    /\ tasks = <<>>
    /\ tx_infos = <<>>
    /\ prev_block = None
    /\ proof_inflight = NoProofs
    /\ proof_got = [s \in ProofStreams |-> {}]
    /\ proof_log = {}
    /\ builders = NoBuilders
    /\ trie_pre_images = None
    /\ block_trace = None
    /\ proofs_left = NoProofsLeft
    /\ meta_pc = "get_target_block"
    /\ target_block_id = 1
    /\ target_block = None
    /\ chain_id = None
    /\ checkpoint_state_trie_root = None
    /\ prev_hashes = <<>>
    /\ hash_fetches = <<>>
    /\ other_data = None
    /\ previous_block_hashes = [state |-> "idle"]

\* The steps of process_block_trace, for a node that serves the blocks with
\* no transaction or with t2 alone.
ProcessBlockTraceStep ==
    \/ RecvBlock /\ block'.val.transactions \in {<<>>, <<"t2">>}
    \/ FailBlock
    \/ StartTransaction
    \/ \E t \in DOMAIN tasks, k \in TxRequests : RecvTxResponse(t, k)
    \/ \E t \in DOMAIN tasks, k \in TxRequests : FailTxResponse(t, k)
    \/ \E t \in DOMAIN tasks : LockAccounts(t)
    \/ \E t \in DOMAIN tasks : LockCodeDb(t)
    \/ \E t \in DOMAIN tasks : Reconcile(t)
    \/ \E t \in DOMAIN tasks : ReturnTxnInfo(t)
    \/ FetchPrevBlock
    \/ RecvPrevBlock
    \/ FailPrevBlock
    \/ \E s \in ProofStreams : RecvProof(s)
    \/ \E s \in ProofStreams : FailProof(s)
    \/ ReturnBlockTrace

\* The steps of fetch_other_block_data.
FetchOtherBlockDataStep ==
    \/ RecvTargetBlock
    \/ FailTargetBlock
    \/ RecvChainId
    \/ FailChainId
    \/ RecvCheckpointBlock
    \/ FailCheckpointBlock
    \/ \E j \in 1..PrevHashesLen : RecvAncestorBlock(j)
    \/ \E j \in 1..PrevHashesLen : FailAncestorBlock(j)
    \/ ReturnPrevHashesError
    \/ ReturnOtherBlockData

\* Either future takes a step while try_join! waits; the first Err ends the
\* join and drops the other future.
NextProver == Joined /\ (ProcessBlockTraceStep \/ FetchOtherBlockDataStep)

SpecProver == InitProver /\ [][NextProver]_vars

\* A sub-request of the witness build fails in this step.
SubRequestFails ==
    \/ FailBlock
    \/ \E t \in DOMAIN tasks, k \in TxRequests : FailTxResponse(t, k)
    \/ FailPrevBlock
    \/ \E s \in ProofStreams : FailProof(s)
    \/ FailTargetBlock
    \/ FailChainId
    \/ FailCheckpointBlock
    \/ \E j \in 1..PrevHashesLen : FailAncestorBlock(j)

\* A sub-request has failed: one of the two futures has returned Err, or the
\* stream of ancestor fetches holds a failed future.
SubRequestFailed ==
    \/ pc = "error"
    \/ meta_pc = "error"
    \/ \E j \in DOMAIN hash_fetches : hash_fetches[j] = "failed"

\* What the three functions have returned: process_block_trace a BlockTrace,
\* fetch_other_block_data an OtherBlockData, prover_input a ProverInput.
BlockTraceReturned == pc = "done"

OtherBlockDataReturned == other_data.some

ProverInputReturned == BlockTraceReturned /\ OtherBlockDataReturned

\* C12 (no partial success): a step in which a sub-request fails leaves the
\* operation failed, a failed operation stays failed, and in a failed operation
\* the function whose sub-request failed has returned no BlockTrace (nor any
\* tries) or no OtherBlockData, and prover_input has returned no ProverInput.
NoPartialSuccess ==
    [][/\ SubRequestFails => SubRequestFailed'
       /\ SubRequestFailed => SubRequestFailed'
       /\ SubRequestFailed' =>
             /\ ~ProverInputReturned'
             /\ pc' = "error" => (~BlockTraceReturned' /\ ~trie_pre_images'.some)
             /\ (meta_pc' = "error" \/ \E j \in DOMAIN hash_fetches' : hash_fetches'[j] = "failed") =>
                   ~OtherBlockDataReturned']_vars

\* A proof request failed after every transaction had been collected and after
\* fetch_other_block_data had returned its OtherBlockData.
NoPartialSuccessSeen ==
    /\ pc = "error"
    /\ prev_block.some
    /\ proof_log # {}
    /\ Len(tx_infos) = 1
    /\ other_data.some

(***************************************************************************)
(* Properties of the block run                                             *)
(***************************************************************************)
\* Every transaction of the block has been reconciled and collected.
AllReconciled ==
    /\ block.some
    /\ pc \in {"txs", "get_prev_block", "proofs", "done"}
    /\ Len(tx_infos) = Len(block.val.transactions)

\* The storage keys a TxnTrace names: storage_read and the keys of storage_written.
TraceKeys(trace) ==
    (IF trace.storage_read.some THEN trace.storage_read.val ELSE {})
    \cup (IF trace.storage_written.some THEN DOMAIN trace.storage_written.val ELSE {})

\* C1 (access coverage): once every transaction of the block is reconciled,
\* each address of each per-transaction trace map is a key of accounts_state,
\* and each key of its storage_read or storage_written is in accounts_state[a].
AccessCoverage ==
    AllReconciled =>
        \A i \in DOMAIN tx_infos :
            \A a \in DOMAIN tx_infos[i].traces :
                /\ a \in DOMAIN accounts_state
                /\ TraceKeys(tx_infos[i].traces[a]) \subseteq accounts_state[a]

\* Two transactions are reconciled; one wrote a slot it did not read, and the
\* other named storage keys too.
AccessCoverageSeen ==
    /\ AllReconciled
    /\ Len(tx_infos) = 2
    /\ \E i \in DOMAIN tx_infos : \E a \in DOMAIN tx_infos[i].traces :
          LET trace == tx_infos[i].traces[a]
          IN  /\ trace.storage_written.some
              /\ \E k \in DOMAIN trace.storage_written.val :
                    (~trace.storage_read.some \/ k \notin trace.storage_read.val)
              /\ \E j \in DOMAIN tx_infos \ {i} : \E b \in DOMAIN tx_infos[j].traces :
                    TraceKeys(tx_infos[j].traces[b]) # {}

\* The target block number N, once the parent block is being asked for.
TargetNumber == block.val.number.val

\* C2 as stated (proof targets): every get_proof request of the state witness
\* uses block tag N - 1, names an address of accounts_state and passes exactly
\* the keys recorded for it; none is issued against block N.
ProofTargetsParentOnly ==
    \A r \in proof_log :
        /\ r.block = TargetNumber - 1
        /\ r.address \in DOMAIN accounts_state
        /\ r.keys = accounts_state[r.address]

\* C2 (proof targets, amended): every get_proof request names an address of
\* accounts_state (which holds the author and the withdrawal addresses from the
\* start) and passes exactly the keys recorded for it; it uses block tag N - 1
\* or N, and when the witness is returned each (address, keys) pair has been
\* requested exactly once against N - 1 and once against N.
ProofTargets ==
    /\ \A r \in proof_log :
          /\ r.block \in {TargetNumber - 1, TargetNumber}
          /\ r.address \in DOMAIN accounts_state
          /\ r.keys = accounts_state[r.address]
    /\ pc = "done" =>
          proof_log = {[address |-> a, keys |-> accounts_state[a], block |-> n] :
                          a \in DOMAIN accounts_state, n \in {TargetNumber - 1, TargetNumber}}

\* The witness was returned for a block whose accounts include one with
\* recorded keys and the withdrawal address, each requested against N - 1 and N.
ProofTargetsSeen ==
    /\ pc = "done"
    /\ \E a \in DOMAIN accounts_state :
          /\ accounts_state[a] # {}
          /\ [address |-> a, keys |-> accounts_state[a], block |-> TargetNumber - 1] \in proof_log
          /\ [address |-> a, keys |-> accounts_state[a], block |-> TargetNumber] \in proof_log
    /\ [address |-> "a4", keys |-> {}, block |-> TargetNumber - 1] \in proof_log

\* The address universe of the transaction with hash h, as the node reports it.
NodeAddresses(h) ==
    LET got == NodeTx(h)
        items == IF got["tx"].val.val.access_list.some THEN got["tx"].val.val.access_list.val ELSE <<>>
    IN  ((DOMAIN got["pre_trace"].val.state \cup DOMAIN got["diff_trace"].val.post)
         \cup DOMAIN got["diff_trace"].val.pre) \cup {items[i].address : i \in DOMAIN items}

\* C3 (order preservation): the returned txn_info list is as long as
\* block.transactions, and its i-th entry carries the encoded transaction, the
\* receipt's gas and the traced addresses of the i-th transaction hash.
OrderPreservation ==
    pc = "done" =>
        /\ Len(tx_infos) = Len(block.val.transactions)
        /\ \A i \in DOMAIN tx_infos :
              LET h == block.val.transactions[i]
              IN  /\ tx_infos[i].meta.byte_code = <<"rlp", h>>
                  /\ tx_infos[i].meta.gas_used = NodeTx(h)["tx_receipt"].val.val.gas_used.val
                  /\ DOMAIN tx_infos[i].traces = NodeAddresses(h)

\* A block of two different transactions was returned.
OrderPreservationSeen ==
    /\ pc = "done"
    /\ Len(tx_infos) = 2
    /\ block.val.transactions[1] # block.val.transactions[2]

\* The storage keys a per-address trace entry lists, as a set.
ReadSet(trace) == IF trace.storage_read.some THEN trace.storage_read.val ELSE {}

\* C14 (storage read set): for every reconciled transaction and address, the
\* emitted storage_read is the union of the access-list keys of the address and
\* the keys of its read-trace storage; the access-list keys are in
\* accounts_state[a], and every get_proof request for a carries them in its key
\* list, whether or not the transaction touched them.
StorageReadSet ==
    /\ \A t \in Reconciled :
          \A a \in DOMAIN Emitted(t) :
              /\ ReadSet(Emitted(t)[a]) = AccessListed(t, a) \cup DOMAIN StorageOf(ReadTrace(t), a)
              /\ Emitted(t)[a].storage_read # Some({})
              /\ a \in DOMAIN accounts_state
              /\ AccessListed(t, a) \subseteq accounts_state[a]
    /\ \A t \in Reconciled :
          \A a \in Addresses : AccessListed(t, a) # {} => a \in DOMAIN Emitted(t)
    /\ \A r \in proof_log :
          \A t \in DOMAIN tasks : AccessListed(t, r.address) \subseteq r.keys

\* A slot named by the access list and by none of the traces is emitted as read
\* and asked for in the proof request against the parent block.
StorageReadSetSeen ==
    \E t \in Reconciled :
        \E a \in DOMAIN Emitted(t) :
            \E k \in AccessListed(t, a) :
                /\ k \notin DOMAIN StorageOf(ReadTrace(t), a)
                /\ k \notin DOMAIN StorageOf(PreTrace(t), a)
                /\ k \notin DOMAIN StorageOf(PostTrace(t), a)
                /\ DOMAIN StorageOf(ReadTrace(t), a) # {}
                /\ k \in ReadSet(Emitted(t)[a])
                /\ \E r \in proof_log :
                      r.address = a /\ k \in r.keys /\ r.block = block.val.number.val - 1

\* Some transaction of the block has contract code in its read trace or in the
\* post map of its diff.
CodeTouched ==
    \E t \in DOMAIN tasks :
        \/ \E a \in DOMAIN ReadTrace(t) : ReadTrace(t)[a].code.some
        \/ \E a \in DOMAIN PostTrace(t) : PostTrace(t)[a].code.some

StorageTrieKeys == DOMAIN trie_pre_images.val.storage

\* C16 (storage trie emission), as the specification states it: the witness has
\* a storage trie for keccak256(a) exactly when a is in accounts_state with a
\* non-empty key set and the node reported a non-zero storage_hash for a at the
\* parent block.
StorageTrieEmission ==
    trie_pre_images.some =>
        \A a \in Addresses :
            (keccak256(H160(a)) \in StorageTrieKeys) <=>
                /\ a \in DOMAIN accounts_state
                /\ accounts_state[a] # {}
                /\ NodeProof(a, accounts_state[a], TargetNumber - 1).storage_hash # H256Zero

\* What generate_state_witness does: every address of accounts_state gets a
\* storage trie, whatever its key set and storage_hash.
StorageTrieForEveryAddress ==
    trie_pre_images.some =>
        \A a \in Addresses : (keccak256(H160(a)) \in StorageTrieKeys) <=> (a \in DOMAIN accounts_state)

\* The witness holds a storage trie for the block author, whose key set is
\* empty and whose storage_hash at the parent block is zero: the trie is the
\* stub Hash(0).
StorageTrieForUntouchedSeen ==
    /\ trie_pre_images.some
    /\ accounts_state[block.val.author.val] = {}
    /\ NodeProof(block.val.author.val, {}, TargetNumber - 1).storage_hash = H256Zero
    /\ keccak256(H160(block.val.author.val)) \in StorageTrieKeys
    /\ trie_pre_images.val.storage[keccak256(H160(block.val.author.val))] = HashNode(H256Zero)

\* What the node answers for the i-th transaction of the block.
NodeAnswer(i, k) == NodeTx(block.val.transactions[i])[k].val.val

\* C19 (gas used): the gas_used of every collected TxnMeta is the gas_used of
\* the receipt of its transaction (the gas consumed), whatever the gas field
\* of the transaction (the gas limit) is.
GasUsedFromReceipt ==
    \A i \in DOMAIN tx_infos :
        /\ tx_infos[i].meta.gas_used = NodeAnswer(i, "tx_receipt").gas_used.val
        /\ NodeAnswer(i, "tx").gas # NodeAnswer(i, "tx_receipt").gas_used.val =>
              tx_infos[i].meta.gas_used # NodeAnswer(i, "tx").gas

\* Two transactions that used different amounts of gas, both below their gas
\* limit, have been collected.
GasUsedFromReceiptSeen ==
    /\ Len(tx_infos) = 2
    /\ tx_infos[1].meta.gas_used = 30000
    /\ tx_infos[2].meta.gas_used = 60000
    /\ \A i \in DOMAIN tx_infos : NodeAnswer(i, "tx").gas > tx_infos[i].meta.gas_used

\* Both proof streams have ended: no get_proof is pending in either.
StreamsEnded ==
    /\ pc = "proofs"
    /\ \A s \in ProofStreams : ~proof_inflight[s].some

\* The block run under a scheduler that keeps polling the two proof streams and
\* a node that answers the requests it does not refuse: a pending get_proof is
\* collected, and once both streams have ended try_join! returns and the run
\* goes on to its end (the tries are built, or the build fails).
FairSpec ==
    /\ Spec
    /\ WF_vars(\E s \in ProofStreams : RecvProof(s))
    /\ WF_pc(StreamsEnded /\ pc' \in {"done", "panic"})

\* The get_proof requests against the parent block that were sent and whose
\* answer has not been collected.
ParentProofsInFlight ==
    {r \in proof_log : r.block = TargetNumber - 1 /\ r.address \notin {x.address : x \in proof_got["account_proofs"]}}

\* C20 (concurrent proof issuance), as the specification states it: once the
\* proofs are being fetched for an access set of at least two addresses, and
\* unless the node refuses a request, a state is reached in which the requests
\* for two different addresses against the parent block are both in flight.
ConcurrentProofIssuance ==
    (pc = "proofs" /\ Cardinality(DOMAIN accounts_state) >= 2) ~>
        \/ \E r1, r2 \in ParentProofsInFlight : r1.address # r2.address
        \/ pc = "error"

\* What fetch_proof_data does (C20): the stream over accounts_state awaits each
\* get_proof before it sends the next, so at most one request against the
\* parent block is in flight in any state.
ParentProofsOneAtATime ==
    pc = "proofs" => Cardinality(ParentProofsInFlight) <= 1

\* The request against the parent block for a second address is in flight
\* after the answer for the first has been collected, and a third address
\* has not been asked for yet.
SequentialProofsSeen ==
    /\ pc = "proofs"
    /\ Cardinality(DOMAIN accounts_state) >= 3
    /\ Cardinality(proof_got["account_proofs"]) = 1
    /\ Cardinality(ParentProofsInFlight) = 1
    /\ Cardinality({r \in proof_log : r.block = TargetNumber - 1}) = 2
    /\ proof_inflight["next_account_proofs"].some

\* The addresses process_block_trace seeds accounts_state with: the author
\* (beneficiary) of the target block and the address of each withdrawal.
SeededAddresses ==
    {block.val.author.val}
    \cup (IF block.val.withdrawals.some THEN {w.address : w \in Range(block.val.withdrawals.val)} ELSE {})

\* The storage keys the collected per-transaction traces name for address a.
TouchedKeys(a) ==
    UNION {TraceKeys(tx_infos[i].traces[a]) : i \in {j \in DOMAIN tx_infos : a \in DOMAIN tx_infos[j].traces}}

\* C21 (beneficiary and withdrawal proofs): when the block trace is returned,
\* the author and every withdrawal address of the block have been asked for at
\* the parent block, with exactly the storage keys the transactions touched
\* for them (none when no trace names the address), and the returned tries
\* are built from builders whose state builder holds every node of the
\* answer's account_proof under its keccak256.
SeededProofs ==
    block_trace.some =>
        Let(generate_state_witness(prev_block.val.state_root, proof_got["account_proofs"], proof_got["next_account_proofs"]),
            LAMBDA witness :
                /\ trie_pre_images = build_all(witness.state, witness.storage)
                /\ \A a \in SeededAddresses :
                      /\ [address |-> a, keys |-> TouchedKeys(a), block |-> TargetNumber - 1] \in proof_log
                      /\ \A r \in proof_log : r.address = a => r.keys = TouchedKeys(a)
                      /\ \A n \in Range(NodeProof(a, TouchedKeys(a), TargetNumber - 1).account_proof) :
                            /\ keccak256(n) \in DOMAIN witness.state.nodes
                            /\ witness.state.nodes[keccak256(n)] = n)

\* A block trace is returned for a block with a withdrawal whose address no
\* transaction names, and an author whose storage a transaction wrote.
SeededProofsSeen ==
    /\ block_trace.some
    /\ block.val.withdrawals.some
    /\ \E a \in SeededAddresses :
          /\ \A i \in DOMAIN tx_infos : a \notin DOMAIN tx_infos[i].traces
          /\ [address |-> a, keys |-> {}, block |-> TargetNumber - 1] \in proof_log
    /\ TouchedKeys(block.val.author.val) # {}

\* C26 (phase ordering): while a get_proof request of the state witness
\* builder has been sent, every transaction of the block has finished its
\* reconciliation and its TxnInfo is collected; and from the first such
\* request on, no step changes accounts_state or code_db.
PhaseOrdering ==
    /\ [](proof_log # {} =>
            /\ Len(tasks) = Len(block.val.transactions)
            /\ \A t \in DOMAIN tasks : tasks[t].pc = "done"
            /\ Len(tx_infos) = Len(block.val.transactions)
            /\ accounts_lock = 0 /\ code_db_lock = 0)
    /\ [][proof_log # {} => UNCHANGED <<accounts_state, code_db>>]_vars

\* Proofs are being fetched after two transactions filled accounts_state and
\* code_db, and more requests have been sent since the first.
PhaseOrderingSeen ==
    /\ pc = "proofs"
    /\ Len(tx_infos) = 2
    /\ DOMAIN code_db # {}
    /\ \E a \in DOMAIN accounts_state : accounts_state[a] # {}
    /\ Cardinality(proof_log) >= 4

\* Task t holds the answers of both trace requests and they are not the pair
\* (default frame, diff frame) that process_transaction matches on.
ShapeMismatch(t) ==
    /\ tasks[t].got["pre_trace"].some
    /\ tasks[t].got["diff_trace"].some
    /\ \/ tasks[t].got["pre_trace"].val.frame # "Default"
       \/ tasks[t].got["diff_trace"].val.frame # "Diff"

\* C27 (trace shape mismatch), as the specification states it: the step that
\* matches on traces of the wrong shape ends process_block_trace with an
\* error returned to the orchestrator; the transaction yields no TxnInfo and
\* accounts_state and code_db stay as they were.
ShapeMismatchReturnsError ==
    [][\A t \in DOMAIN tasks :
          (tasks[t].pc = "locked" /\ ShapeMismatch(t) /\ tasks'[t].pc # "locked") =>
              /\ pc' = "error"
              /\ tx_infos' = tx_infos
              /\ accounts_state' = accounts_state
              /\ code_db' = code_db]_vars

\* What process_transaction does (C27): the step panics (unreachable!()).  No
\* TxnInfo is added, accounts_state and code_db stay as they were, the guards
\* are dropped, and no block trace is ever returned.
ShapeMismatchPanics ==
    /\ [][\A t \in DOMAIN tasks :
            (tasks[t].pc = "locked" /\ ShapeMismatch(t) /\ tasks'[t].pc # "locked") =>
                /\ pc' = "panic"
                /\ tasks'[t].pc = "dropped"
                /\ tx_infos' = tx_infos
                /\ accounts_state' = accounts_state
                /\ code_db' = code_db
                /\ accounts_lock' = 0 /\ code_db_lock' = 0]_vars
    /\ [](pc = "panic" => ~block_trace.some)

\* A block's second transaction got a default frame for its diff-mode request
\* after the first had filled accounts_state: the run has panicked with one
\* TxnInfo collected.
ShapeMismatchSeen ==
    /\ pc = "panic"
    /\ Len(tasks) = 2
    /\ tasks[2].pc = "dropped"
    /\ ShapeMismatch(2)
    /\ Len(tx_infos) = 1
    /\ \E a \in DOMAIN accounts_state : accounts_state[a] # {}

\* The tasks that are between taking both locks and returning their TxnInfo.
InCriticalSection == {t \in DOMAIN tasks : tasks[t].pc \in {"locked", "reconciled"}}

\* C10 (critical section): a task that is reconciling holds the accounts_state
\* lock and the code_db lock, so at most one task is; and while transactions
\* run, accounts_state and code_db change only in a step of the task that holds
\* both locks and still holds them after the step.
CriticalSection ==
    [][/\ \A t \in InCriticalSection : accounts_lock = t /\ code_db_lock = t
       /\ (pc = "txs" /\ <<accounts_state, code_db>>' # <<accounts_state, code_db>>) =>
             \E t \in DOMAIN tasks :
                /\ tasks[t].pc = "locked" /\ tasks'[t].pc = "reconciled"
                /\ accounts_lock = t /\ code_db_lock = t
                /\ accounts_lock' = t /\ code_db_lock' = t
                /\ \A u \in DOMAIN tasks \ {t} : tasks'[u] = tasks[u]]_vars

\* The second transaction of a block has changed accounts_state and code_db
\* inside its critical section.
CriticalSectionSeen ==
    /\ pc = "txs"
    /\ Len(tasks) = 2
    /\ tasks[2].pc = "reconciled"
    /\ accounts_lock = 2 /\ code_db_lock = 2
    /\ code_db # EmptyMap
    /\ \E a \in DOMAIN tasks[2].traces : a \in DOMAIN accounts_state /\ accounts_state[a] # {}

\* The block run in which a task that waits for a free mutex is polled again:
\* tokio wakes the waiter of a Mutex when the guard is dropped, and the
\* executor polls process_block_trace while one of its futures is ready.
FairLockSpec ==
    /\ Spec
    /\ \A t \in 1..MaxTxs : WF_vars(t \in DOMAIN tasks /\ LockAccounts(t))
    /\ \A t \in 1..MaxTxs : WF_vars(t \in DOMAIN tasks /\ LockCodeDb(t))

\* The tasks that wait for the accounts_state mutex, or hold it and wait for
\* the code_db mutex.
WaitsForAccounts == {t \in DOMAIN tasks : tasks[t].pc = "lock_accounts"}

WaitsForCodeDb == {t \in DOMAIN tasks : tasks[t].pc = "lock_code_db"}

\* C29 (lock order): a task holds the code_db mutex only while it holds the
\* accounts_state mutex, it holds neither before it asks for the first nor
\* after it returned or was dropped, so no task holds code_db while it waits
\* for accounts_state and no two tasks hold one mutex each while waiting for
\* the other; and every task that asks for the mutexes comes to hold both.
LockOrder ==
    /\ [](\A t \in DOMAIN tasks :
            /\ code_db_lock = t => accounts_lock = t
            /\ tasks[t].pc \in {"fetch", "lock_accounts", "done", "dropped"} =>
                   accounts_lock # t /\ code_db_lock # t
            /\ tasks[t].pc = "lock_code_db" => accounts_lock = t /\ code_db_lock # t)
    /\ [](accounts_lock \in {0} \cup DOMAIN tasks /\ code_db_lock \in {0} \cup DOMAIN tasks)
    /\ [](~ \E t, u \in DOMAIN tasks :
              /\ t # u
              /\ t \in WaitsForCodeDb /\ accounts_lock = t /\ code_db_lock = u
              /\ u \in WaitsForAccounts)
    /\ [](pc = "txs" /\ WaitsForAccounts # {} /\ accounts_lock # 0 =>
              \E u \in DOMAIN tasks : accounts_lock = u /\ tasks[u].pc \in {"lock_code_db", "locked", "reconciled"})
    /\ \A t \in 1..MaxTxs :
          (t \in DOMAIN tasks /\ tasks[t].pc = "lock_accounts") ~>
              (t \in DOMAIN tasks /\ tasks[t].pc = "locked" /\ accounts_lock = t /\ code_db_lock = t)

\* The second task of a block holds both mutexes, which the first task held
\* and released.
LockOrderSeen ==
    /\ pc = "txs"
    /\ Len(tasks) = 2
    /\ tasks[1].pc = "done"
    /\ tasks[2].pc = "locked"
    /\ accounts_lock = 2 /\ code_db_lock = 2

\* try_collect has returned every TxnInfo and process_state_witness has not
\* been entered yet.
TransactionsProcessed ==
    /\ pc = "txs"
    /\ Len(tasks) = Len(block.val.transactions)
    /\ \A t \in DOMAIN tasks : tasks[t].pc = "done"

\* C30 (sole ownership at hand-over): when every transaction has been
\* processed the accounts_state handle has one owner, and so has the code_db
\* handle from then until the BlockTrace is assembled; the step that unwraps
\* accounts_state fails only for a block without a number, and the step that
\* assembles the BlockTrace never returns an error.
SoleOwner ==
    /\ [](TransactionsProcessed =>
              strong_count("accounts_state") = 1 /\ strong_count("code_db") = 1)
    /\ [](pc \in {"get_prev_block", "proofs", "done"} => strong_count("code_db") = 1)
    /\ [][(TransactionsProcessed /\ pc' = "error") => ~block.val.number.some]_vars
    /\ [][StreamsEnded => pc' \in {"proofs", "done", "panic"}]_vars
    /\ [](pc = "done" => block_trace.some)

\* A block trace has been returned after two futures held clones of both
\* handles and dropped them.
SoleOwnerSeen ==
    /\ pc = "done"
    /\ block_trace.some
    /\ Len(tasks) = 2
    /\ \A t \in DOMAIN tasks : tasks[t].arcs = {}
    /\ strong_count("accounts_state") = 1 /\ strong_count("code_db") = 1

====
